---------------------------- MODULE Spec2Model ----------------------------
(***************************************************************************)
(* A model of remule's peer collector (collect-peers) and of the Kad UDP   *)
(* codec (emule-proto) it decodes datagrams with.                          *)
(*                                                                         *)
(* Byte buffers are sequences of numbers 0..255.  A 128 bit Kad id is kept *)
(* as the 16 bytes it is read from (u128::from_le_bytes is a bijection     *)
(* between the two, and the numbers exceed 32 bit integers); an            *)
(* IPv4 address is the tuple of its four octets, most significant first.   *)
(* An Option<T> is a sequence: << >> is None (SQL NULL), <<v>> is Some(v). *)
(***************************************************************************)
EXTENDS Integers, Sequences, FiniteSets, TLC

(***************************************************************************)
(* Bounds of the model.                                                    *)
(***************************************************************************)
\* datagrams the receiver takes before it stops receiving
MaxDatagrams == 1
\* the clock stops advancing here
MaxClock == 1
\* openers that run Store::new on one database
MaxOpeners == 2
\* length of the arbitrary short buffers offered to the codec
MaxShortBuf == 2
\* entries (records) a file declares or carries
MaxEntries == 2
MaxTrees == 2
MaxReports == 2
MaxPeerRows == 3

(***************************************************************************)
(* Program constants.                                                      *)
(***************************************************************************)
\* enum UdpProto
Emule == \hC5
KademliaPacked == \hE5
KademliaHeader == \hE4
UdpReserved1 == \hA3
UdpReserved2 == \hB2
Packed == \hD4

UdpProtoValues == {Emule, KademliaPacked, KademliaHeader, UdpReserved1, UdpReserved2, Packed}

\* enum KadOpCode
OpBootstrapReq == \h01
OpBootstrapResp == \h09
OpReq == \h21
OpRes == \h29
OpSearchRes == \h3B

KadOpCodeValues ==
    { \h00, \h01, \h08, \h09, \h10, \h11, \h18, \h19, \h20, \h21, \h22, \h28, \h29,
      \h30, \h32, \h33, \h34, \h35, \h38, \h3A, \h3B, \h40, \h42, \h43, \h44, \h45,
      \h48, \h4A, \h4B, \h4C, \h50, \h51, \h52, \h53, \h58, \h59, \h5A, \h60, \h61, \h62 }

\* let need = 16 + 2 + 1 + 2 in BootstrapResp::from_slice
BootstrapRespHeaderSize == 21
\* let each_size = 16 + 4 + 2 + 2 + 1 in BootstrapRespContacts::from_slice
ContactSize == 25
\* let need = 1 + 16 + 16 in Req::from_slice
ReqSize == 33
\* let mut rx_buf = [0u8; 1024] in Kad::process_rx
RxBufSize == 1024

(***************************************************************************)
(* Inputs: the peers of the small network the model runs in, and the       *)
(* datagrams they send.                                                    *)
(***************************************************************************)
\* Kad ids: 16 bytes, least significant first, the first one telling them apart
KadId(k) == <<k, 1>> \o [i \in 1..14 |-> 0]
KadIds == {KadId(1), KadId(2)}
Ips == {<<1, 2, 3, 4>>, <<10, 0, 0, 7>>}
\* the address datagrams come from
Addrs == {[ip |-> <<1, 2, 3, 4>>, port |-> 4242]}

\* encoders of the wire layout, used to build the datagrams
U16ToLe(n) == <<n % 256, n \div 256>>
Ipv4ToLe(ip) == <<ip[4], ip[3], ip[2], ip[1]>>
RECURSIVE Flatten(_)
Flatten(ss) == IF ss = << >> THEN << >> ELSE Head(ss) \o Flatten(Tail(ss))
EncodeContact(c) ==
    c.id \o Ipv4ToLe(c.ip) \o U16ToLe(c.udp_port) \o U16ToLe(c.tcp_port) \o <<c.version>>
\* a BootstrapResp datagram announcing `declared` contacts and carrying cs
EncodeBootstrapResp(id, port, version, declared, cs) ==
    <<KademliaHeader, OpBootstrapResp>> \o id \o U16ToLe(port) \o <<version>>
        \o U16ToLe(declared) \o Flatten([i \in 1..Len(cs) |-> EncodeContact(cs[i])])

\* the contacts peers name
NamedContacts ==
    << [id |-> KadId(2), ip |-> <<10, 0, 0, 7>>, udp_port |-> 4672, tcp_port |-> 4662, version |-> 8],
       [id |-> KadId(1), ip |-> <<1, 2, 3, 4>>, udp_port |-> 4242, tcp_port |-> 4662, version |-> 9] >>

\* The well-formed BootstrapResp datagrams, by what they say: no contact and
\* the sender's own port; two contacts and a port that is not the sender's.
Responses ==
    << [client_id |-> KadId(1), client_port |-> 4242, client_version |-> 8, cs |-> << >>],
       [client_id |-> KadId(1), client_port |-> 6929, client_version |-> 8, cs |-> NamedContacts] >>

\* a datagram of more than RxBufSize bytes: 41 contacts, 2 + 21 + 1025 bytes
LongResponse ==
    EncodeBootstrapResp(KadId(1), 4242, 8, 41, [i \in 1..41 |-> NamedContacts[1]])

\* a packed datagram (the bytes after the opcode stand for a zlib stream)
PackedResponse == <<KademliaPacked, OpBootstrapResp, 120, 156>>

\* the datagrams the collector receives
Datagrams ==
    << \* 1, 2: the well-formed responses
       EncodeBootstrapResp(Responses[1].client_id, Responses[1].client_port,
                           Responses[1].client_version, 0, Responses[1].cs),
       EncodeBootstrapResp(Responses[2].client_id, Responses[2].client_port,
                           Responses[2].client_version, 2, Responses[2].cs),
       \* 3: announces two contacts and carries one
       EncodeBootstrapResp(KadId(1), 4242, 8, 2, <<NamedContacts[1]>>),
       \* 4: a BootstrapResp cut short inside its header
       <<KademliaHeader, OpBootstrapResp, 1, 2, 3>>,
       \* 5: a Req of 33 bytes
       <<KademliaHeader, OpReq>> \o [i \in 1..ReqSize |-> 0],
       \* 6: no byte at all
       << >>,
       \* 7: longer than the receive buffer
       LongResponse,
       \* 8: packed
       PackedResponse >>

\* what inflating the rest of a packed datagram may give
InflateOutcomes ==
    { [tag |-> "Err"],
      [tag |-> "Ok", out |-> << >>],
      [tag |-> "Ok", out |-> SubSeq(Datagrams[1], 3, Len(Datagrams[1]))],
      [tag |-> "Ok", out |-> <<1, 2, 3>>] }

\* the buffers the codec is given when taken alone: the datagrams above,
\* other framings, and every buffer of up to MaxShortBuf bytes over the
\* bytes that steer the decoder
SteeringBytes == {KademliaHeader, KademliaPacked, Emule, OpBootstrapResp, OpReq, 0, 66}
RECURSIVE BuffersOfLen(_)
BuffersOfLen(n) ==
    IF n = 0 THEN {<< >>}
    ELSE {Append(b, x) : b \in BuffersOfLen(n - 1), x \in SteeringBytes}
CodecBuffers ==
    {Datagrams[i] : i \in 1..Len(Datagrams)}
    \cup { <<KademliaHeader, OpReq, 0, 0>>, <<KademliaHeader, 96>>, <<Packed, 1>>,
           <<UdpReserved1>>, <<UdpReserved2, 9>>,
           <<KademliaHeader, OpBootstrapResp>> \o [i \in 1..(BootstrapRespHeaderSize - 1) |-> 7],
           <<KademliaHeader, OpReq>> \o [i \in 1..(ReqSize + 1) |-> 0] }
    \cup UNION {BuffersOfLen(n) : n \in 0..MaxShortBuf}

(***************************************************************************)
(* Slices and little-endian integers.                                      *)
(***************************************************************************)
\* &raw[from..], from counted from 0
SliceFrom(raw, from) == SubSeq(raw, from + 1, Len(raw))

\* &raw[from..to], both counted from 0
Slice(raw, from, to) == SubSeq(raw, from + 1, to)

\* u16::from_le_bytes
U16FromLe(b) == b[1] + 256 * b[2]

\* Ipv4Addr::from(u32::from_le_bytes(b)): the most significant byte of the
\* u32 is the last byte of the buffer and the first octet of the address
Ipv4FromLe(b) == <<b[4], b[3], b[2], b[1]>>

(***************************************************************************)
(* Results.  A panic (a failed unwrap, an index out of range) is a result  *)
(* of its own: it unwinds the task that ran the decoder.                   *)
(***************************************************************************)
Err(e) == [tag |-> "Err", err |-> e]
Panic(where) == [tag |-> "Panic", err |-> where]
IsOk(r) == r.tag \notin {"Err", "Panic"}

(***************************************************************************)
(* emule-proto/src/udp_proto.rs                                            *)
(***************************************************************************)
PacketFromSlice(raw) ==
    IF Len(raw) < 1 THEN Err("PacketTooShort") ELSE [tag |-> "Packet", raw |-> raw]

\* a variant of KadPacketFromCow that takes a payload without an opcode
KadPacketFromCowAny(raw) == [tag |-> "Kad", raw |-> raw]

KadPacketFromCow(raw) ==
    IF Len(raw) < 1 THEN Err("KadPacketTooShort") ELSE [tag |-> "Kad", raw |-> raw]

\* Packet::kind.  z is what ZlibDecoder::read_to_end gives on raw[2..]:
\* Err, or [tag |-> "Ok", out |-> bytes].
PacketKind(raw, z) ==
    IF raw[1] = KademliaHeader THEN KadPacketFromCow(SliceFrom(raw, 1))
    ELSE IF raw[1] = KademliaPacked THEN
        IF Len(raw) < 2 THEN Err("PacketTooShort")
        ELSE IF z.tag = "Err" THEN Err("KadPackedDecompress")
        ELSE KadPacketFromCow(<<raw[2]>> \o z.out)
    ELSE IF raw[1] \notin UdpProtoValues THEN Err("UnrecognizedUdpProto")
    ELSE Err("UnhandledUdpProto")

BootstrapRespFromSlice(raw) ==
    IF Len(raw) < BootstrapRespHeaderSize
    THEN Err("BootstrapRespTooShort")
    ELSE [tag |-> "BootstrapResp", raw |-> raw]

ReqFromSlice(raw) ==
    IF Len(raw) # ReqSize THEN Err("ReqSizeMismatch") ELSE [tag |-> "Req", raw |-> raw]

\* Result::unwrap
Unwrap(r) == IF r.tag = "Err" THEN Panic(r.err) ELSE r

\* KadPacket::operation: Some(op), None, or the panic of the unwrap
KadOperation(raw) ==
    IF raw[1] = OpBootstrapResp THEN Unwrap(BootstrapRespFromSlice(SliceFrom(raw, 1)))
    ELSE IF raw[1] = OpReq THEN Unwrap(ReqFromSlice(SliceFrom(raw, 1)))
    ELSE [tag |-> "None"]

\* BootstrapResp accessors
client_id(r) == Slice(r.raw, 0, 16)
client_port(r) == U16FromLe(Slice(r.raw, 16, 18))
client_version(r) == r.raw[19]
num_contacts(r) == U16FromLe(Slice(r.raw, 19, 21))

\* a variant of BootstrapRespContactsFromSlice that lets bytes follow the
\* contacts
BootstrapRespContactsAtLeast(num, raw) ==
    IF Len(raw) < ContactSize * num
    THEN Err("BootstrapRespContactsSizeMismatch")
    ELSE [tag |-> "Contacts", raw |-> raw]

BootstrapRespContactsFromSlice(num, raw) ==
    IF Len(raw) # ContactSize * num
    THEN Err("BootstrapRespContactsSizeMismatch")
    ELSE [tag |-> "Contacts", raw |-> raw]

\* BootstrapResp::contacts
contacts(r) ==
    BootstrapRespContactsFromSlice(num_contacts(r), SliceFrom(r.raw, BootstrapRespHeaderSize))

\* The i-th item (from 1) of the iterator BootstrapRespContacts: next() splits
\* 25 bytes off the front while any byte is left and panics on a shorter rest.
ContactsCount(c) == (Len(c.raw) + ContactSize - 1) \div ContactSize

ContactsItem(c, i) ==
    IF Len(c.raw) < i * ContactSize
    THEN Panic("bad brc len")
    ELSE [tag |-> "Contact", raw |-> Slice(c.raw, (i - 1) * ContactSize, i * ContactSize)]

\* BootstrapRespContact accessors
brc_client_id(c) == Slice(c.raw, 0, 16)
brc_ip_addr(c) == Ipv4FromLe(Slice(c.raw, 16, 20))
brc_udp_port(c) == U16FromLe(Slice(c.raw, 20, 22))
brc_tcp_port(c) == U16FromLe(Slice(c.raw, 22, 24))
brc_version(c) == c.raw[25]

\* <[u8; n]>::try_from(slice): the array when the slice has n bytes
TryInto(slice, n) ==
    IF Len(slice) = n THEN [tag |-> "Ok", v |-> slice] ELSE Err("TryFromSliceError")

\* Req accessors
req_type(r) == r.raw[2]
req_target(r) == Slice(r.raw, 1, 17)
req_check(r) == Slice(r.raw, 17, 33)

\* ResContact::from_slice: the contact and the rest
ResHeaderSize == 17
ResContactSize == 25
ResContactFromSlice(raw) ==
    IF Len(raw) < ResContactSize THEN Err("ResContactSizeMismatch")
    ELSE [tag |-> "Ok", raw |-> Slice(raw, 0, ResContactSize),
          rem |-> SliceFrom(raw, ResContactSize)]

\* Res accessors on the bytes
res_target(raw) == Slice(raw, 0, 16)
res_num_contacts(raw) == raw[17]
res_contact_bytes(raw) == SliceFrom(raw, 17)

\* the loop of Res::from_slice: `for _ in 0..num_contacts()`, from r = raw
RECURSIVE ResWalk(_, _)
ResWalk(n, r) ==
    IF n = 0 THEN [tag |-> "Ok"]
    ELSE LET c == ResContactFromSlice(r) IN
         IF c.tag = "Err" THEN c ELSE ResWalk(n - 1, c.rem)

ResFromSlice(raw) ==
    IF Len(raw) # ResHeaderSize THEN Err("ResSizeMismatch")
    ELSE LET w == ResWalk(res_num_contacts(raw), raw) IN
         IF w.tag = "Err" THEN w ELSE [tag |-> "Res", raw |-> raw]

\* the iterator ResContacts run to its end: the items it yields, and how it
\* ends (None, or the panic of the unwrap in next())
RECURSIVE ResContactsIter(_)
ResContactsIter(raw) ==
    IF Len(raw) = 0 THEN [items |-> << >>, end |-> "None"]
    ELSE LET c == ResContactFromSlice(raw) IN
         IF c.tag = "Err" THEN [items |-> << >>, end |-> "Panic"]
         ELSE LET rest == ResContactsIter(c.rem) IN
              [items |-> <<c.raw>> \o rest.items, end |-> rest.end]

\* enum TagType
TagType ==
    [Hash |-> 1, String_ |-> 2, Uint32 |-> 3, Float32 |-> 4, Bool |-> 5, BoolArray |-> 6,
     Blob |-> 7, Uint16 |-> 8, Uint8 |-> 9, Bsob |-> 10, Uint64 |-> 11]
TagTypeValues == {TagType[n] : n \in DOMAIN TagType}

\* Tag::from_slice, the match on tag_type: content_bytes.  value_offs is
\* 3 + name_len.
TagContentBytes(raw, value_offs) ==
    LET t == raw[1] IN
    IF t = TagType.Hash THEN [tag |-> "Ok", n |-> 16]
    ELSE IF t = TagType.String_ THEN
        IF Len(raw) < value_offs + 2 THEN Err("TagSizeMismatchForString")
        ELSE IF Len(raw) < value_offs + 6 THEN Panic("range end index out of range")
        ELSE LET a == Unwrap(TryInto(Slice(raw, value_offs, value_offs + 6), 2)) IN
             IF a.tag = "Panic" THEN a ELSE [tag |-> "Ok", n |-> 2 + U16FromLe(a.v)]
    ELSE IF t = TagType.Uint64 THEN [tag |-> "Ok", n |-> 8]
    ELSE IF t = TagType.Uint32 THEN [tag |-> "Ok", n |-> 4]
    ELSE IF t = TagType.Uint16 THEN [tag |-> "Ok", n |-> 2]
    ELSE IF t = TagType.Uint8 THEN [tag |-> "Ok", n |-> 1]
    ELSE IF t = TagType.Float32 THEN [tag |-> "Ok", n |-> 4]
    ELSE Panic("todo!()")

\* Tag::from_slice: the tag and the rest
TagFromSlice(raw) ==
    IF Len(raw) < 3 THEN Err("TagSizeMismatch")
    ELSE LET name_len == U16FromLe(Slice(raw, 1, 3))
             need_size == 3 + name_len
         IN IF Len(raw) < need_size THEN Err("TagSizeMismatchName")
            ELSE IF raw[1] \notin TagTypeValues THEN Err("TagInvalid")
            ELSE LET c == TagContentBytes(raw, need_size) IN
                 IF c.tag # "Ok" THEN c
                 ELSE IF Len(raw) < need_size + c.n THEN Err("TagSizeMismatchContent")
                 ELSE [tag |-> "Ok", raw |-> Slice(raw, 0, need_size + c.n),
                       rem |-> SliceFrom(raw, need_size + c.n)]

\* Tag accessors.  value(): the variant and what it holds, integers of more
\* than 16 bits as their little-endian bytes.
tag_name_len(t) == U16FromLe(Slice(t.raw, 1, 3))
tag_name(t) == Slice(t.raw, 3, 3 + tag_name_len(t))
tag_value_bytes(t) == SliceFrom(t.raw, 3 + tag_name_len(t))
tag_value(t) ==
    LET ty == t.raw[1]
        vb == tag_value_bytes(t)
    IN IF ty = TagType.Hash THEN [type |-> "Hash", v |-> vb]
       ELSE IF ty = TagType.String_ THEN
            [type |-> "String_", v |-> Slice(vb, 2, 2 + U16FromLe(Slice(vb, 0, 2)))]
       ELSE IF ty = TagType.Uint64 THEN [type |-> "Uint64", v |-> Unwrap(TryInto(vb, 8)).v]
       ELSE IF ty = TagType.Uint32 THEN [type |-> "Uint32", v |-> Unwrap(TryInto(vb, 4)).v]
       ELSE IF ty = TagType.Uint16
            THEN [type |-> "Uint16", v |-> U16FromLe(Unwrap(TryInto(vb, 2)).v)]
       ELSE IF ty = TagType.Uint8 THEN [type |-> "Uint8", v |-> vb[1]]
       ELSE IF ty = TagType.Float32 THEN [type |-> "Float32", v |-> Unwrap(TryInto(vb, 4)).v]
       ELSE Panic("unhandled tag_type")

\* TagList::count: u16::from_le_bytes(self.raw[..4].try_into().unwrap())
TagListCount(raw) ==
    LET a == Unwrap(TryInto(Slice(raw, 0, 4), 2)) IN
    IF a.tag = "Panic" THEN a ELSE [tag |-> "Ok", ct |-> U16FromLe(a.v)]

\* the loop of TagList::from_slice: ct tags off rem
RECURSIVE TagListWalk(_, _)
TagListWalk(ct, rem) ==
    IF ct = 0 THEN [tag |-> "Ok", rem |-> rem]
    ELSE LET t == TagFromSlice(rem) IN
         IF t.tag # "Ok" THEN t ELSE TagListWalk(ct - 1, t.rem)

\* TagList::from_slice: the list and the rest
TagListFromSlice(raw) ==
    IF Len(raw) < 4 THEN Err("TagListTooShort")
    ELSE LET c == TagListCount(raw) IN
         IF c.tag = "Panic" THEN c
         ELSE LET w == TagListWalk(c.ct, SliceFrom(raw, 4)) IN
              IF w.tag # "Ok" THEN w
              ELSE [tag |-> "Ok", raw |-> Slice(raw, 0, Len(raw) - Len(w.rem)),
                    rem |-> w.rem]

\* TagListIter::next on the item bytes: Some(Ok(tag)) and the rest, or
\* Some(Err(e)) with the bytes left as they are; it has no None
TagListIterNext(raw) == TagFromSlice(raw)

(***************************************************************************)
(* src/nodes.rs: the nodes.dat file                                        *)
(***************************************************************************)
\* u32::from_le_bytes(b) as usize
U32FromLe(b) == b[1] + 256 * b[2] + 65536 * b[3] + 16777216 * b[4]

\* one entry of parse: the bytes s of the entry, of the size of the version
NodesContact(version, s) ==
    [uid |-> Slice(s, 0, 16), ip |-> Slice(s, 16, 20),
     udp_port |-> U16FromLe(Slice(s, 20, 22)), tcp_port |-> U16FromLe(Slice(s, 22, 24)),
     contact_version |-> IF version >= 1 THEN <<s[25]>> ELSE << >>,
     by_type |-> IF version >= 1 THEN << >> ELSE <<s[25]>>,
     kad_udp_key |-> IF version >= 2 THEN <<Slice(s, 25, 29), Slice(s, 29, 33)>> ELSE << >>,
     verified |-> IF version >= 2 THEN <<s[34]>> ELSE << >>]

\* let n = 25 + if version >= 2 { 1 + 4 + 4 } else { 0 }
NodesEntrySize(version) == 25 + (IF version >= 2 THEN 1 + 4 + 4 ELSE 0)

\* the loop of parse, `for _ in 0..count`, and the check that follows it
RECURSIVE NodesEntries(_, _, _, _)
NodesEntries(version, count, rem, r) ==
    IF count = 0
    THEN IF Len(rem) # 0 THEN Err("spare bytes")
         ELSE [tag |-> "Ok", version |-> version, is_bootstrap |-> FALSE, contacts |-> r]
    ELSE LET n == NodesEntrySize(version) IN
         IF Len(rem) < n THEN Err("not enough bytes")
         ELSE NodesEntries(version, count - 1, SliceFrom(rem, n),
                           Append(r, NodesContact(version, Slice(rem, 0, n))))

\* parse, after the version (and the edition of version 3): the count, read
\* without a look at the length, then the check of the version
NodesAfterHeader(version, rem) ==
    IF Len(rem) < 4 THEN Panic("range end index 4 out of range")
    ELSE IF version > 3 THEN Err("unknown version")
    ELSE NodesEntries(version, U32FromLe(Slice(rem, 0, 4)), SliceFrom(rem, 4), << >>)

\* nodes::parse
NodesParse(inp) ==
    IF Len(inp) < 4 THEN Err("no count")
    ELSE LET count == U32FromLe(Slice(inp, 0, 4))
             rem == SliceFrom(inp, 4)
         IN IF count # 0 THEN NodesEntries(0, count, rem, << >>)
            ELSE IF Len(rem) < 4 THEN Err("no version")
            ELSE LET version == U32FromLe(Slice(rem, 0, 4))
                     rem2 == SliceFrom(rem, 4)
                 IN IF version = 3
                    THEN IF Len(rem2) < 4 THEN Panic("range end index 4 out of range")
                         ELSE IF U32FromLe(Slice(rem2, 0, 4)) = 1 THEN Panic("todo!()")
                         ELSE NodesAfterHeader(version, SliceFrom(rem2, 4))
                    ELSE NodesAfterHeader(version, rem2)

\* nodes::parse_bootstrap: with an entry to read, the first read of the loop
\* converts the 8 bytes rem[..8] to the 16 of a u128 and unwraps
NodesParseBootstrap(inp) ==
    IF Len(inp) < 4 THEN Err("no count")
    ELSE LET count == U32FromLe(Slice(inp, 0, 4))
             rem == SliceFrom(inp, 4)
         IN IF count * 25 # Len(rem) THEN Err("not enough data")
            ELSE IF count = 0 THEN [tag |-> "Ok", contacts |-> << >>]
            ELSE Unwrap(TryInto(Slice(rem, 0, 8), 16))

\* ---- known2.rs: the known2_64.met file of AICH hash trees ----
KNOWN2_MET_VERSION == \h02
HASHSIZE == 20

\* the loop of parse: one tree per turn, from the bytes that remain
RECURSIVE Known2Trees(_, _)
Known2Trees(rem, r) ==
    LET tn == HASHSIZE + 4 IN
    IF Len(rem) = 0 THEN [tag |-> "Ok", trees |-> r]
    ELSE IF Len(rem) < tn THEN Err("Spare bytes where tree entry expected")
    ELSE LET root == Slice(rem, 0, HASHSIZE)
             ct == U32FromLe(Unwrap(TryInto(Slice(rem, HASHSIZE, tn), 4)).v)
             rest == SliceFrom(rem, tn)
             n == HASHSIZE * ct
         IN IF Len(rest) < n THEN Err("tree needs more bytes")
            ELSE Known2Trees(SliceFrom(rest, n),
                     Append(r, [root |-> root,
                                children |-> [i \in 1..ct |->
                                    Slice(rest, HASHSIZE * (i - 1), HASHSIZE * i)]]))

\* parse without the test of the marker byte
Known2ParseAnyVersion(inp) ==
    IF Len(inp) < 1 THEN Err("no magic marker")
    ELSE Known2Trees(SliceFrom(inp, 1), << >>)

Known2Parse(inp) ==
    IF Len(inp) < 1 THEN Err("no magic marker")
    ELSE IF inp[1] # KNOWN2_MET_VERSION THEN Err("unknown version")
    ELSE Known2Trees(SliceFrom(inp, 1), << >>)

\* ---- clientcredit.rs: the clients.met file of client credits ----
CREDITFILE_VERSION == \h12
CREDITFILE_VERSION_29 == \h11
MAX_PUBKEYSIZE == 80

\* size_of of the packed structs CreditData29a and CreditData
SizeOfCreditData29a == 16 + 4 + 4 + 4 + 4 + 4 + 2
SizeOfCreditData == SizeOfCreditData29a + 1 + MAX_PUBKEYSIZE

\* ClientCredit::from_data_29.  A u64 is kept as its eight bytes, least
\* significant first: (hi << 32) | lo is the bytes of lo and then of hi.
ClientCreditFromData29(data) ==
    [tag |-> "Ok",
     key |-> Slice(data, 0, 16),
     downloaded |-> Slice(data, 20, 24) \o Slice(data, 32, 36),
     uploaded |-> Slice(data, 16, 20) \o Slice(data, 28, 32),
     last_seen |-> Slice(data, 24, 28),
     secure_ident |-> << >>]

\* ClientCredit::from_data: the slice of the key buffer panics when key_size
\* is beyond its end
ClientCreditFromData(data) ==
    LET s == ClientCreditFromData29(Slice(data, 0, SizeOfCreditData29a))
        key_size == data[SizeOfCreditData29a + 1]
        secure_ident == Slice(data, SizeOfCreditData29a + 1, SizeOfCreditData)
    IN IF key_size > MAX_PUBKEYSIZE THEN Panic("range end index out of range")
       ELSE [s EXCEPT !.secure_ident = Slice(secure_ident, 0, key_size)]

\* the loop of parse over count entries of entry_size bytes
RECURSIVE ClientCreditEntries(_, _, _, _)
ClientCreditEntries(version, count, rem, r) ==
    IF count = 0 THEN [tag |-> "Ok", credits |-> r]
    ELSE LET entry_size == IF version = CREDITFILE_VERSION THEN SizeOfCreditData
                           ELSE SizeOfCreditData29a
             c == IF version = CREDITFILE_VERSION
                  THEN ClientCreditFromData(Slice(rem, 0, entry_size))
                  ELSE ClientCreditFromData29(Slice(rem, 0, entry_size))
         IN IF c.tag = "Panic" THEN c
            ELSE ClientCreditEntries(version, count - 1, SliceFrom(rem, entry_size),
                                     Append(r, c))

ClientCreditParse(inp) ==
    IF Len(inp) < 1 THEN Err("no version byte found")
    ELSE LET version == inp[1] IN
         IF version \notin {CREDITFILE_VERSION, CREDITFILE_VERSION_29}
         THEN Err("unhandled version")
         ELSE LET entry_size == IF version = CREDITFILE_VERSION THEN SizeOfCreditData
                                ELSE SizeOfCreditData29a
                  rem == SliceFrom(inp, 1)
              IN IF Len(rem) < 4 THEN Err("missing count")
                 ELSE LET count == U32FromLe(Slice(rem, 0, 4))
                          n == count * entry_size
                      IN IF Len(rem) - 4 < n THEN Err("not enough space")
                         ELSE IF Len(rem) - 4 # n THEN Err("spare bytes")
                         ELSE ClientCreditEntries(version, count, SliceFrom(rem, 4), << >>)

\* The decoding path of Kad::handle_packet:
\* Packet::from_slice(b)?.kind()? and then KadPacket::operation()
DecodePath(b, z) ==
    LET p == PacketFromSlice(b) IN
    IF p.tag = "Err" THEN p
    ELSE LET k == PacketKind(p.raw, z) IN
         IF k.tag = "Err" THEN k ELSE KadOperation(k.raw)

(***************************************************************************)
(* State.                                                                  *)
(***************************************************************************)
VARIABLES
    \* the store: tables peer, report, report_contact
    peer, report, report_contact,
    \* the clock, in seconds
    now,
    \* Kad::bootstrap: position, rest of the peers() stream, current item,
    \* next deadline of the pacing interval, end of the back-off sleep
    s_pc, s_stream, s_peer, s_deadline, s_wake,
    \* Kad::process_rx and the handler it awaits: position, call site of
    \* insert_peer / insert_report_contact in handle_bootstrap_resp, datagram
    \* (index in Datagrams) and what inflating it gives, sender address, s_time,
    \* datagrams received, peer_sid, report, index of the contact of the loop,
    \* ct and id inside insert_peer, end of the back-off sleep
    r_pc, r_site, r_dg, r_z, r_addr, r_stime, r_n, r_peer_sid, r_report, r_idx, r_ct, r_sid,
    r_wake,
    \* feed-nodes-dat: position, nodes of the file, index of the node being
    \* inserted, rows_affected of its INSERT, insert_ct
    i_pc, i_nodes, i_idx, i_ct, i_insert_ct,
    \* history: what the stream has yielded and the number of rows the query
    \* saw; the last send_to; how the handling of the last datagram ended and
    \* the sizes of the tables when it arrived; the time of the latest
    \* send_to call (-1 before the first)
    g_seen, g_qlen, g_sent, g_last, g_report0, g_rc0, g_sent_at,
    \* the codec taken alone: position, buffer, inflation, result
    c_pc, c_buf, c_z, c_res,
    \* Store::new: the database; the opener whose transaction holds the write
    \* lock (0: none); by opener, its position, v, ts, executed_update, the
    \* database it has read from, the database its transaction has written,
    \* its error
    db, o_writer, o_pc, o_v, o_ts, o_executed_update, o_base, o_tx, o_err,
    \* history, by opener: the statements its transaction has run, the
    \* version the probe returned
    g_applied, g_read

storeVars == <<peer, report, report_contact>>
senderVars == <<s_pc, s_stream, s_peer, s_deadline, s_wake, g_seen, g_qlen, g_sent,
                g_sent_at>>
recvVars == <<r_pc, r_site, r_dg, r_z, r_addr, r_stime, r_n, r_peer_sid, r_report, r_idx,
              r_ct, r_sid, r_wake, g_last, g_report0, g_rc0>>
importVars == <<i_pc, i_nodes, i_idx, i_ct, i_insert_ct>>
codecVars == <<c_pc, c_buf, c_z, c_res>>
engineVars == <<storeVars, now, senderVars, recvVars, importVars, codecVars>>
openVars == <<db, o_writer, o_pc, o_v, o_ts, o_executed_update, o_base, o_tx, o_err,
              g_applied, g_read>>
vars == <<storeVars, now, senderVars, recvVars, importVars, codecVars, openVars>>

(***************************************************************************)
(* The store (collect-peers/src/main.rs, struct Store).  A table is the    *)
(* sequence of its rows in rowid order; no statement deletes a row, so the *)
(* INTEGER PRIMARY KEY of a row is its index.                              *)
(***************************************************************************)
\* u128::to_string of u128::from_le_bytes(id): the decimal digits, by long
\* division of the bytes (most significant first) by ten
Reverse(s) == [i \in 1..Len(s) |-> s[Len(s) + 1 - i]]

\* the bytes from the first that is not zero
StripZeros(be) ==
    LET nz == {i \in 1..Len(be) : be[i] # 0} IN
    IF nz = {} THEN << >>
    ELSE SubSeq(be, CHOOSE i \in nz : \A j \in nz : i <= j, Len(be))

RECURSIVE DivBy10(_, _)
DivBy10(be, carry) ==
    IF be = << >> THEN [q |-> << >>, r |-> carry]
    ELSE LET cur == carry * 256 + Head(be)
             rest == DivBy10(Tail(be), cur % 10)
         IN [q |-> <<cur \div 10>> \o rest.q, r |-> rest.r]

DecimalOf[be \in Seq(0..255)] ==
    LET b == StripZeros(be) IN
    IF b = << >> THEN ""
    ELSE LET d == DivBy10(b, 0) IN DecimalOf[d.q] \o ToString(d.r)

KadIdToText(id) ==
    LET s == DecimalOf[Reverse(id)] IN IF s = "" THEN "0" ELSE s

\* str::parse::<u128> of the kad_id column
KadIdParse(t) == CHOOSE id \in KadIds : KadIdToText(id) = t

\* IpAddr::to_string of an IPv4 address
IpToText(ip) ==
    ToString(ip[1]) \o "." \o ToString(ip[2]) \o "." \o ToString(ip[3]) \o "." \o ToString(ip[4])

\* the columns (kad_id, ip, udp_port) insert_peer binds for a Peer
PeerKey(p) == <<KadIdToText(p.id), IpToText(p.ip), p.udp_port>>
RowKey(row) == <<row.kad_id, row.ip, row.udp_port>>

\* a variant of InsertPeerRows for a table without the UNIQUE constraint
InsertPeerRowsUnconstrained(tbl, p) == 1

\* INSERT OR IGNORE INTO peer (kad_id, ip, udp_port) under
\* CONSTRAINT UNIQUE (kad_id, ip, udp_port): rows_affected
InsertPeerRows(tbl, p) ==
    IF \E i \in 1..Len(tbl) : RowKey(tbl[i]) = PeerKey(p) THEN 0 ELSE 1

InsertOrIgnorePeer(tbl, p) ==
    IF InsertPeerRows(tbl, p) = 0 THEN tbl
    ELSE Append(tbl, [kad_id |-> KadIdToText(p.id), ip |-> IpToText(p.ip),
                      udp_port |-> p.udp_port, last_send_time |-> << >>])

\* a variant of SelectPeerId that returns the id the next row would get
SelectNextRowId(tbl, p) == [tag |-> "Ok", id |-> Len(tbl) + 1]

\* a variant of SelectPeerId that returns last_insert_rowid()
SelectLastRowId(tbl, p) ==
    IF tbl = << >> THEN Err("RowNotFound") ELSE [tag |-> "Ok", id |-> Len(tbl)]

\* SELECT id FROM peer WHERE kad_id = $1 AND ip = $2 AND udp_port = $3,
\* fetch_one: the first matching row, RowNotFound when there is none
SelectPeerId(tbl, p) ==
    LET hits == {i \in 1..Len(tbl) : RowKey(tbl[i]) = PeerKey(p)} IN
    IF hits = {} THEN Err("RowNotFound")
    ELSE [tag |-> "Ok", id |-> CHOOSE i \in hits : \A j \in hits : i <= j]

\* SystemTime::as_unix_millis of the clock
MillisPerSecond == 1000
AsUnixMillis(t) == t * MillisPerSecond

\* INSERT INTO report (source_peer, recv_time) VALUES ($1, $2) RETURNING id
InsertReport(tbl, source, recv_time) ==
    Append(tbl, [source_peer |-> source, recv_time |-> AsUnixMillis(recv_time)])

\* a variant of InsertReportContact that puts the row before the others
InsertReportContactFront(tbl, report_id, peer_id, contact) ==
    <<[report_id |-> report_id, reported_peer_id |-> peer_id,
       tcp_port |-> contact.tcp_port, contact_version |-> contact.version,
       verified |-> contact.verified]>> \o tbl

\* INSERT INTO report_contact (report_id, reported_peer_id, tcp_port,
\* contact_version, verified)
InsertReportContact(tbl, report_id, peer_id, contact) ==
    Append(tbl, [report_id |-> report_id, reported_peer_id |-> peer_id,
                 tcp_port |-> contact.tcp_port, contact_version |-> contact.version,
                 verified |-> contact.verified])

\* a variant of MarkPeerSent without the WHERE clause
MarkEveryPeerSent(tbl, id, t) ==
    [i \in 1..Len(tbl) |-> [tbl[i] EXCEPT !.last_send_time = <<AsUnixMillis(t)>>]]

\* UPDATE peer SET last_send_time = $1 WHERE id = $2
MarkPeerSent(tbl, id, t) ==
    [i \in 1..Len(tbl) |->
        IF i = id THEN [tbl[i] EXCEPT !.last_send_time = <<AsUnixMillis(t)>>] ELSE tbl[i]]

\* ORDER BY last_send_time ASC: SQLite sorts NULL before every value
LastSendBefore(a, b) ==
    IF a = << >> THEN b # << >>
    ELSE b # << >> /\ a[1] < b[1]

\* a variant of OrderByLastSend without the ORDER BY: rowid order
OrderByRowid(tbl, n) == [i \in 1..n |-> i]

\* the sorter: row ids in the order of last_send_time, ties in rowid order
RECURSIVE OrderByLastSend(_, _)
OrderByLastSend(tbl, n) ==
    IF n = 0 THEN << >>
    ELSE LET sorted == OrderByLastSend(tbl, n - 1)
             k == Cardinality({j \in 1..Len(sorted) :
                     ~LastSendBefore(tbl[n].last_send_time, tbl[sorted[j]].last_send_time)})
         IN SubSeq(sorted, 1, k) \o <<n>> \o SubSeq(sorted, k + 1, Len(sorted))

\* Store::peers: SELECT id, kad_id, ip, udp_port FROM peer ORDER BY
\* last_send_time ASC, each row mapped to a PeerStoreInfo.  The statement
\* sorts the table as it stands when the query runs.
\* str::parse of the ip column
IpParse(t) == CHOOSE ip \in Ips : IpToText(ip) = t

\* (at_query is history: the row's last_send_time as the statement read it)
PeerStoreInfo(tbl, id) ==
    [id |-> id, kad_id |-> KadIdParse(tbl[id].kad_id),
     addr |-> <<IpParse(tbl[id].ip), tbl[id].udp_port>>,
     at_query |-> tbl[id].last_send_time]

Peers(tbl) ==
    LET order == OrderByLastSend(tbl, Len(tbl)) IN
    [k \in 1..Len(tbl) |-> PeerStoreInfo(tbl, order[k])]


(***************************************************************************)
(* Kad::bootstrap, the sender task.  A panic of the receiver unwinds main  *)
(* and ends the process, the sender with it; a panic of the sender ends    *)
(* only the spawned task.                                                  *)
(***************************************************************************)
ProcessAlive == r_pc # "panicked"

\* no current item, no send_to yet in this round of the loop (a local that
\* is dead is kept at one value)
NoPeerInfo == [id |-> 0, kad_id |-> << >>, addr |-> << >>, at_query |-> << >>]
NoSend == [id |-> 0, to |-> << >>, ok |-> FALSE, at |-> 0]

\* let mut peers = self.shared.store.peers(): the query runs on the first
\* next(), which nothing separates from this call
SenderQuery ==
    /\ ProcessAlive /\ s_pc = "query"
    /\ s_stream' = Peers(peer)
    /\ g_seen' = << >>
    /\ g_qlen' = Len(peer)
    /\ s_pc' = "next"
    /\ UNCHANGED <<storeVars, now, s_peer, s_deadline, s_wake, g_sent, g_sent_at, recvVars,
                   importVars, codecVars, openVars>>

\* while let Some(peer) = peers.next().await: a row, or the end of the
\* stream and the next round of the outer loop
SenderNext ==
    /\ ProcessAlive /\ s_pc = "next"
    /\ IF s_stream = << >>
       THEN /\ s_pc' = "query"
            /\ UNCHANGED <<s_peer, s_stream, g_seen>>
       ELSE /\ s_peer' = Head(s_stream)
            /\ s_stream' = Tail(s_stream)
            /\ g_seen' = Append(g_seen, Head(s_stream))
            /\ s_pc' = "send"
    /\ UNCHANGED <<storeVars, now, s_deadline, s_wake, g_qlen, g_sent, g_sent_at, recvVars,
                   importVars, codecVars, openVars>>

\* fetch_many reports the end of the statement as Either::Left(query
\* result) before the stream ends: the Left arm panics
SenderQueryResult ==
    /\ ProcessAlive /\ s_pc = "next" /\ s_stream = << >>
    /\ s_pc' = "panicked"
    /\ UNCHANGED <<storeVars, now, s_stream, s_peer, s_deadline, s_wake, g_seen, g_qlen,
                   g_sent, g_sent_at, recvVars, importVars, codecVars, openVars>>

\* peers.next() yields Err(DbFetchPeers): peer.unwrap() panics
SenderNextErr ==
    /\ ProcessAlive /\ s_pc = "next"
    /\ s_pc' = "panicked"
    /\ UNCHANGED <<storeVars, now, s_stream, s_peer, s_deadline, s_wake, g_seen, g_qlen,
                   g_sent, g_sent_at, recvVars, importVars, codecVars, openVars>>

\* send_to(&out_buf, peer.addr) returns Ok
SenderSendOk ==
    /\ ProcessAlive /\ s_pc = "send"
    /\ g_sent' = [id |-> s_peer.id, to |-> s_peer.addr, ok |-> TRUE, at |-> now]
    /\ g_sent_at' = now
    /\ s_pc' = "mark"
    /\ UNCHANGED <<storeVars, now, s_stream, s_peer, s_deadline, s_wake, g_seen, g_qlen,
                   recvVars, importVars, codecVars, openVars>>

\* a variant of SenderSendErr that forgets the `continue`
SenderSendErrThenMark ==
    /\ ProcessAlive /\ s_pc = "send"
    /\ g_sent' = [id |-> s_peer.id, to |-> s_peer.addr, ok |-> FALSE, at |-> now]
    /\ g_sent_at' = now
    /\ s_pc' = "mark"
    /\ UNCHANGED <<storeVars, now, s_stream, s_peer, s_deadline, s_wake, g_seen, g_qlen,
                   recvVars, importVars, codecVars, openVars>>

\* a variant of SenderSendErr that continues without the sleep
SenderSendErrNoSleep ==
    /\ ProcessAlive /\ s_pc = "send"
    /\ g_sent' = [id |-> s_peer.id, to |-> s_peer.addr, ok |-> FALSE, at |-> now]
    /\ g_sent_at' = now
    /\ s_pc' = "next"
    /\ UNCHANGED <<storeVars, now, s_stream, s_peer, s_deadline, s_wake, g_seen, g_qlen,
                   recvVars, importVars, codecVars, openVars>>

\* send_to returns Err: log, sleep(1 s), continue
SenderSendErr ==
    /\ ProcessAlive /\ s_pc = "send"
    /\ g_sent' = [id |-> s_peer.id, to |-> s_peer.addr, ok |-> FALSE, at |-> now]
    /\ g_sent_at' = now
    /\ s_wake' = now + 1
    /\ s_pc' = "sleep"
    /\ UNCHANGED <<storeVars, now, s_stream, s_peer, s_deadline, g_seen, g_qlen,
                   recvVars, importVars, codecVars, openVars>>

\* the sleep after a failed send is over: continue with peers.next()
SenderSleepDone ==
    /\ ProcessAlive /\ s_pc = "sleep"
    /\ now >= s_wake
    /\ s_pc' = "next"
    /\ s_wake' = 0 /\ s_peer' = NoPeerInfo /\ g_sent' = NoSend
    /\ UNCHANGED <<storeVars, now, s_stream, s_deadline, g_seen, g_qlen, g_sent_at,
                   recvVars, importVars, codecVars, openVars>>

\* self.shared.store.mark_peer_sent(peer.id).await? returns Ok
SenderMarkOk ==
    /\ ProcessAlive /\ s_pc = "mark"
    /\ peer' = MarkPeerSent(peer, s_peer.id, now)
    /\ s_pc' = "tick"
    /\ s_peer' = NoPeerInfo /\ g_sent' = NoSend
    /\ UNCHANGED <<report, report_contact, now, s_stream, s_deadline, s_wake,
                   g_seen, g_qlen, g_sent_at, recvVars, importVars, codecVars, openVars>>

\* mark_peer_sent returns Err(DbUpdateSent): `?` returns it from bootstrap()
\* and kad.bootstrap().await.unwrap() panics in the spawned task
SenderMarkErr ==
    /\ ProcessAlive /\ s_pc = "mark"
    /\ s_pc' = "panicked"
    /\ UNCHANGED <<storeVars, now, s_stream, s_peer, s_deadline, s_wake, g_seen, g_qlen,
                   g_sent, g_sent_at, recvVars, importVars, codecVars, openVars>>

\* timeout_bootstrap.tick().await: an Interval of period 1 s completes at
\* its deadline, the first of which is the time it was made, and moves the
\* deadline one period on
PacingPeriod == 1
SenderTick ==
    /\ ProcessAlive /\ s_pc = "tick"
    /\ now >= s_deadline
    /\ s_deadline' = s_deadline + PacingPeriod
    /\ s_pc' = "next"
    /\ UNCHANGED <<storeVars, now, s_stream, s_peer, s_wake, g_seen, g_qlen, g_sent,
                   g_sent_at, recvVars, importVars, codecVars, openVars>>

Sender ==
    \/ SenderQuery \/ SenderNext \/ SenderQueryResult \/ SenderNextErr
    \/ SenderSendOk \/ SenderSendErr
    \/ SenderSleepDone \/ SenderMarkOk \/ SenderMarkErr \/ SenderTick


(***************************************************************************)
(* Kad::process_rx, Kad::handle_packet and Kad::handle_bootstrap_resp: the *)
(* receiver, which is the main task.                                       *)
(***************************************************************************)
\* &rx_buf[..recv]: recv_from fills at most the buffer
RxData(dg) ==
    IF Len(Datagrams[dg]) <= RxBufSize THEN Datagrams[dg]
    ELSE SubSeq(Datagrams[dg], 1, RxBufSize)

\* only a packed datagram of two bytes or more is inflated
IsPacked(b) == Len(b) >= 2 /\ b[1] = KademliaPacked

\* the BootstrapResp being handled
Resp == DecodePath(RxData(r_dg), r_z)

\* let peer = Peer { id: client_id(), ip: rx_addr.ip(), udp_port: rx_addr.port() }
SourcePeer(resp, addr) ==
    [id |-> client_id(resp), ip |-> addr.ip, udp_port |-> addr.port]

\* a variant of SelfContact that takes the port of the datagram's address
SelfContactRxPort(resp, addr) ==
    [peer |-> [id |-> client_id(resp), ip |-> addr.ip, udp_port |-> addr.port],
     tcp_port |-> << >>, version |-> << >>, verified |-> << >>]

\* let self_contact = Contact { peer: Peer { .., udp_port: client_port() }, .. }
SelfContact(resp, addr) ==
    [peer |-> [id |-> client_id(resp), ip |-> addr.ip, udp_port |-> client_port(resp)],
     tcp_port |-> << >>, version |-> << >>, verified |-> << >>]

\* impl From<BootstrapRespContact> for Contact
ContactFrom(c) ==
    [peer |-> [id |-> brc_client_id(c), ip |-> brc_ip_addr(c), udp_port |-> brc_udp_port(c)],
     tcp_port |-> <<brc_tcp_port(c)>>, version |-> <<brc_version(c)>>, verified |-> << >>]

\* the contact of the current call of insert_report_contact
CurContact ==
    IF r_site = "self" THEN SelfContact(Resp, r_addr)
    ELSE ContactFrom(ContactsItem(contacts(Resp), r_idx))

\* the peer of the current call of insert_peer
CurPeer == IF r_site = "src" THEN SourcePeer(Resp, r_addr) ELSE CurContact.peer

\* the handler has returned (or unwound): its locals are gone
HandlerLocalsDropped ==
    r_site' = "none" /\ r_idx' = 0 /\ r_ct' = 0 /\ r_sid' = 0 /\ r_peer_sid' = 0
    /\ r_report' = 0

\* An Err of the store inside the handler: in the contact loop the result
\* of insert_report_contact is unwrapped, elsewhere `?` returns it to
\* process_rx, which logs it and receives again.
HandlerStoreErr ==
    /\ r_pc' = IF r_site = "contact" THEN "panicked" ELSE "recv"
    /\ g_last' = IF r_site = "contact" THEN "store_panic" ELSE "store_err"
    /\ HandlerLocalsDropped

\* sock.recv_from(&mut rx_buf) returns a datagram; s_time = SystemTime::now();
\* handle_packet decodes it up to its first await
RecvDatagramUpTo(max) ==
    /\ r_pc = "recv" /\ r_n < max
    /\ \E dg \in 1..Len(Datagrams), addr \in Addrs, z \in InflateOutcomes :
        LET op == DecodePath(RxData(dg), z) IN
        /\ z.tag = "Err" \/ IsPacked(RxData(dg))
        /\ r_dg' = dg /\ r_z' = z /\ r_addr' = addr
        /\ r_stime' = now
        /\ r_n' = r_n + 1
        /\ g_report0' = Len(report) /\ g_rc0' = Len(report_contact)
        /\ IF op.tag = "BootstrapResp"
           THEN r_pc' = "insert_peer" /\ r_site' = "src" /\ g_last' = "handling"
           ELSE /\ r_site' = "none"
                /\ r_pc' = IF op.tag = "Panic" THEN "panicked" ELSE "recv"
                /\ g_last' = CASE op.tag = "Panic" -> "panic"
                               [] op.tag = "Err" -> "err"
                               [] OTHER -> "unhandled"
    /\ UNCHANGED <<storeVars, now, senderVars, r_peer_sid, r_report, r_idx, r_ct, r_sid,
                   r_wake, importVars, codecVars, openVars>>

RecvDatagram == RecvDatagramUpTo(MaxDatagrams)

\* recv_from returns Err: log, sleep(1 s), continue
RecvErr ==
    /\ r_pc = "recv"
    /\ r_wake' = now + 1
    /\ r_pc' = "sleep"
    /\ UNCHANGED <<storeVars, now, senderVars, r_site, r_dg, r_z, r_addr, r_stime, r_n,
                   r_peer_sid, r_report, r_idx, r_ct, r_sid, g_last, g_report0, g_rc0,
                   importVars, codecVars, openVars>>

RecvSleepDone ==
    /\ r_pc = "sleep"
    /\ now >= r_wake
    /\ r_pc' = "recv"
    /\ r_wake' = 0
    /\ UNCHANGED <<storeVars, now, senderVars, r_site, r_dg, r_z, r_addr, r_stime, r_n,
                   r_peer_sid, r_report, r_idx, r_ct, r_sid, g_last, g_report0,
                   g_rc0, importVars, codecVars, openVars>>

\* insert_peer: INSERT OR IGNORE INTO peer ..; let ct = res.rows_affected()
HandlerInsertPeer ==
    /\ r_pc = "insert_peer"
    /\ \/ /\ peer' = InsertOrIgnorePeer(peer, CurPeer)
          /\ r_ct' = InsertPeerRows(peer, CurPeer)
          /\ r_pc' = "select_peer"
          /\ UNCHANGED <<g_last, r_site, r_idx, r_sid, r_peer_sid, r_report>>
       \/ /\ HandlerStoreErr
          /\ UNCHANGED peer
    /\ UNCHANGED <<report, report_contact, now, senderVars, r_dg, r_z, r_addr,
                   r_stime, r_n, r_wake, g_report0, g_rc0, importVars, codecVars, openVars>>

\* insert_peer: SELECT id FROM peer WHERE ..; Ok((ct, id)).  The caller is
\* handle_bootstrap_resp (which goes on to insert_report) or
\* insert_report_contact (which goes on to its INSERT).
HandlerSelectPeer ==
    /\ r_pc = "select_peer"
    /\ \/ /\ SelectPeerId(peer, CurPeer).tag = "Ok"
          /\ r_sid' = SelectPeerId(peer, CurPeer).id
          /\ r_peer_sid' = IF r_site = "src" THEN SelectPeerId(peer, CurPeer).id
                           ELSE r_peer_sid
          /\ r_pc' = IF r_site = "src" THEN "insert_report" ELSE "insert_report_contact"
          /\ UNCHANGED <<g_last, r_site, r_idx, r_ct, r_report>>
       \/ HandlerStoreErr
    /\ UNCHANGED <<storeVars, now, senderVars, r_dg, r_z, r_addr, r_stime, r_n,
                   r_wake, g_report0, g_rc0, importVars, codecVars, openVars>>

\* let report = insert_report(peer_sid, recv_time).await?; then the call of
\* insert_report_contact(report, &self_contact, ..)
HandlerInsertReport ==
    /\ r_pc = "insert_report"
    /\ \/ /\ report' = InsertReport(report, r_peer_sid, r_stime)
          /\ r_report' = Len(report) + 1
          /\ r_site' = "self"
          /\ r_pc' = "insert_peer"
          /\ UNCHANGED <<g_last, r_idx, r_ct, r_sid, r_peer_sid>>
       \/ /\ HandlerStoreErr
          /\ UNCHANGED report
    /\ UNCHANGED <<peer, report_contact, now, senderVars, r_dg, r_z, r_addr, r_stime, r_n,
                   r_wake, g_report0, g_rc0, importVars, codecVars, openVars>>

\* What follows the INSERT of insert_report_contact.  After the self
\* report: `for bs_node in bootstrap_resp.contacts()?`, where `?` returns the
\* size mismatch.  Then the next item of the iterator, or the end of the
\* loop and Ok(()).
AfterReportContact ==
    LET cs == contacts(Resp)
        i == IF r_site = "self" THEN 1 ELSE r_idx + 1
    IN  IF cs.tag = "Err"
        THEN r_pc' = "recv" /\ g_last' = "err" /\ HandlerLocalsDropped
        ELSE IF i > ContactsCount(cs)
        THEN r_pc' = "recv" /\ g_last' = "ok" /\ HandlerLocalsDropped
        ELSE IF ContactsItem(cs, i).tag = "Panic"
        THEN r_pc' = "panicked" /\ g_last' = "panic" /\ HandlerLocalsDropped
        ELSE r_pc' = "insert_peer" /\ r_site' = "contact" /\ r_idx' = i
             /\ UNCHANGED <<g_last, r_ct, r_sid, r_peer_sid, r_report>>

\* insert_report_contact: INSERT INTO report_contact ..; Ok(ct)
HandlerInsertReportContact ==
    /\ r_pc = "insert_report_contact"
    /\ \/ /\ report_contact' = InsertReportContact(report_contact, r_report, r_sid, CurContact)
          /\ AfterReportContact
       \/ /\ HandlerStoreErr
          /\ UNCHANGED report_contact
    /\ UNCHANGED <<peer, report, now, senderVars, r_dg, r_z, r_addr, r_stime, r_n,
                   r_wake, g_report0, g_rc0, importVars, codecVars, openVars>>

Receiver ==
    \/ RecvDatagram \/ RecvErr \/ RecvSleepDone \/ HandlerInsertPeer \/ HandlerSelectPeer
    \/ HandlerInsertReport \/ HandlerInsertReportContact


(***************************************************************************)
(* main, Action::FeedNodesDat: another process on the same database, which *)
(* inserts the contacts of a nodes.dat file.                               *)
(***************************************************************************)
\* impl From<remule::nodes::Contact> for Peer
ImportNodes ==
    << [id |-> KadId(2), ip |-> <<10, 0, 0, 7>>, udp_port |-> 4672] >>

\* for node in nodes: insert_peer, its INSERT; `?` ends main on an Err
ImportInsertPeer ==
    /\ i_pc = "insert_peer"
    /\ \/ /\ peer' = InsertOrIgnorePeer(peer, i_nodes[i_idx])
          /\ i_ct' = InsertPeerRows(peer, i_nodes[i_idx])
          /\ i_pc' = "select_peer"
       \/ /\ i_pc' = "failed"
          /\ UNCHANGED <<peer, i_ct>>
    /\ UNCHANGED <<report, report_contact, now, senderVars, recvVars, i_nodes, i_idx,
                   i_insert_ct, codecVars, openVars>>

\* insert_peer, its SELECT; insert_ct += ct; the next node or the end
ImportSelectPeer ==
    /\ i_pc = "select_peer"
    /\ \/ /\ SelectPeerId(peer, i_nodes[i_idx]).tag = "Ok"
          /\ i_insert_ct' = i_insert_ct + i_ct
          /\ i_idx' = i_idx + 1
          /\ i_pc' = IF i_idx + 1 > Len(i_nodes) THEN "done" ELSE "insert_peer"
       \/ /\ i_pc' = "failed"
          /\ UNCHANGED <<i_idx, i_insert_ct>>
    /\ UNCHANGED <<storeVars, now, senderVars, recvVars, i_nodes, i_ct, codecVars, openVars>>

Import == ImportInsertPeer \/ ImportSelectPeer

(***************************************************************************)
(* Store::new, the v2 -> v3 migration: INSERT INTO peer (kad_id, ip,       *)
(* udp_port, last_send_time) SELECT id, ip, udp_port, MAX(last_send) FROM  *)
(* peers GROUP BY id, ip, udp_port.  SQL leaves the order of the groups,   *)
(* and with it the new rowids, open.                                       *)
(***************************************************************************)
LegacyKey(row) == <<row.id, row.ip, row.udp_port>>

\* a variant of MaxLastSend that takes the least last_send of the group
MinLastSend(peers, key) ==
    LET vals == {peers[i].last_send[1] : i \in {j \in 1..Len(peers) :
                    LegacyKey(peers[j]) = key /\ peers[j].last_send # << >>}}
    IN IF vals = {} THEN << >> ELSE <<CHOOSE v \in vals : \A w \in vals : v <= w>>

\* MAX(last_send) of a group: NULL when every last_send of it is NULL
MaxLastSend(peers, key) ==
    LET vals == {peers[i].last_send[1] : i \in {j \in 1..Len(peers) :
                    LegacyKey(peers[j]) = key /\ peers[j].last_send # << >>}}
    IN IF vals = {} THEN << >> ELSE <<CHOOSE v \in vals : \A w \in vals : w <= v>>

SeedPeerTables(peers) ==
    LET keys == {LegacyKey(peers[i]) : i \in 1..Len(peers)}
        n == Cardinality(keys)
        orders == {f \in [1..n -> keys] : \A a, b \in 1..n : a # b => f[a] # f[b]}
    IN { [i \in 1..n |-> [kad_id |-> f[i][1], ip |-> f[i][2], udp_port |-> f[i][3],
                          last_send_time |-> MaxLastSend(peers, f[i])]] : f \in orders }

\* a legacy peers table: two rows of one peer, and another peer never sent to
LegacyPeers ==
    << [id |-> KadIdToText(KadId(1)), ip |-> IpToText(<<1, 2, 3, 4>>), udp_port |-> 4242,
        last_send |-> <<1000>>],
       [id |-> KadIdToText(KadId(1)), ip |-> IpToText(<<1, 2, 3, 4>>), udp_port |-> 4242,
        last_send |-> << >>],
       [id |-> KadIdToText(KadId(2)), ip |-> IpToText(<<10, 0, 0, 7>>), udp_port |-> 4672,
        last_send |-> << >>] >>

\* a legacy peers table whose first peer was sent to twice
LegacyPeersResent ==
    << [id |-> KadIdToText(KadId(1)), ip |-> IpToText(<<1, 2, 3, 4>>), udp_port |-> 4242,
        last_send |-> <<2000>>] >> \o LegacyPeers

(***************************************************************************)
(* The collector and an import on a store that Store::new has opened: one  *)
(* it has just created, or one it has migrated.                            *)
(***************************************************************************)
ClockTick ==
    /\ now < MaxClock
    /\ now' = now + 1
    /\ UNCHANGED <<storeVars, senderVars, recvVars, importVars, codecVars, openVars>>

CodecIdle ==
    /\ c_pc = "idle" /\ c_buf = << >> /\ c_z = [tag |-> "Err"] /\ c_res = [tag |-> "None"]

\* no opener is at work: Store::new has returned
OpenIdle ==
    /\ db = [version |-> << >>, peers |-> << >>, peer |-> << >>, report |-> << >>,
             report_contact |-> << >>]
    /\ o_writer = 0
    /\ o_pc = << >> /\ o_v = << >> /\ o_ts = << >> /\ o_executed_update = << >>
    /\ o_base = << >> /\ o_tx = << >> /\ o_err = << >>
    /\ g_applied = << >> /\ g_read = << >>

\* the collector and the import before their first step
EngineInit ==
    /\ report = << >> /\ report_contact = << >>
    /\ now = 0
    /\ s_pc = "query" /\ s_stream = << >> /\ s_peer = NoPeerInfo
    /\ s_deadline = 0 /\ s_wake = 0
    /\ g_seen = << >> /\ g_qlen = 0 /\ g_sent = NoSend /\ g_sent_at = -1
    /\ r_pc = "recv" /\ r_site = "none" /\ r_dg = 0 /\ r_z = [tag |-> "Err"]
    /\ r_addr = [ip |-> <<0, 0, 0, 0>>, port |-> 0]
    /\ r_stime = 0 /\ r_n = 0 /\ r_peer_sid = 0 /\ r_report = 0 /\ r_idx = 0
    /\ r_ct = 0 /\ r_sid = 0 /\ r_wake = 0
    /\ g_last = "none" /\ g_report0 = 0 /\ g_rc0 = 0
    /\ i_pc = "insert_peer" /\ i_nodes = ImportNodes /\ i_idx = 1 /\ i_ct = 0
    /\ i_insert_ct = 0

Init ==
    /\ peer \in {<< >>} \cup SeedPeerTables(LegacyPeers)
    /\ EngineInit
    /\ CodecIdle
    /\ OpenIdle

Next == Sender \/ Receiver \/ Import \/ ClockTick

Spec == Init /\ [][Next]_vars

(***************************************************************************)
(* The receiver over several datagrams, next to the import: the sender     *)
(* writes no report and no report_contact.                                 *)
(***************************************************************************)
RecvDatagramOfMany == RecvDatagramUpTo(MaxReports)

NextRx ==
    \/ RecvDatagramOfMany \/ RecvErr \/ RecvSleepDone \/ HandlerInsertPeer
    \/ HandlerSelectPeer \/ HandlerInsertReport \/ HandlerInsertReportContact
    \/ Import \/ ClockTick

SpecRx == Init /\ [][NextRx]_vars

(***************************************************************************)
(* The sweep of the sender when send_to and the statements of the store    *)
(* succeed, next to the receiver.  The tasks are polled by the tokio       *)
(* runtime whenever they can make progress, and time passes.               *)
(***************************************************************************)
SenderSweep ==
    \/ SenderQuery \/ SenderNext \/ SenderQueryResult
    \/ SenderSendOk \/ SenderMarkOk \/ SenderTick

NextSweep == SenderSweep \/ Receiver \/ ClockTick

SpecSweep == Init /\ [][NextSweep]_vars /\ WF_vars(SenderSweep) /\ WF_vars(ClockTick)


(***************************************************************************)
(* The codec taken alone: a buffer is received (cut to the receive buffer) *)
(* and taken through the decoding path of handle_packet.                   *)
(***************************************************************************)
Received(b) == IF Len(b) <= RxBufSize THEN b ELSE SubSeq(b, 1, RxBufSize)

CodecReceive ==
    /\ c_pc = "idle"
    /\ \E b \in CodecBuffers, z \in InflateOutcomes :
        /\ z.tag = "Err" \/ IsPacked(Received(b))
        /\ c_buf' = Received(b)
        /\ c_z' = z
    /\ c_pc' = "received"
    /\ UNCHANGED <<storeVars, now, senderVars, recvVars, importVars, c_res, openVars>>

CodecDecode ==
    /\ c_pc = "received"
    /\ c_res' = DecodePath(c_buf, c_z)
    /\ c_pc' = "decoded"
    /\ UNCHANGED <<storeVars, now, senderVars, recvVars, importVars, c_buf, c_z, openVars>>

InitCodec == peer = << >> /\ EngineInit /\ CodecIdle /\ OpenIdle

NextCodec == CodecReceive \/ CodecDecode

SpecCodec == InitCodec /\ [][NextCodec]_vars

(***************************************************************************)
(* The parsers of udp_proto.rs and of the files (nodes.dat, known2_64.dat, *)
(* clients.met) taken one at a time: a caller hands one of them a buffer   *)
(* and gets what it returns, with what its accessors and its iterator give *)
(* on the value returned.                                                  *)
(***************************************************************************)
ParseFns ==
    {"Packet::kind", "KadPacket::operation", "BootstrapResp::contacts", "Res::from_slice",
     "TagList::from_slice", "Tag::from_slice", "Req::from_slice",
     "nodes::parse", "nodes::parse_bootstrap", "known2::parse",
     "clientcredit::parse"}

\* the prefixes of a buffer
Prefixes(b) == {SubSeq(b, 1, n) : n \in 0..Len(b)}

\* n contacts on the wire, and filler bytes
WireContacts(n) == Flatten([i \in 1..n |-> EncodeContact(NamedContacts[1 + (i % 2)])])
Filler(n) == [i \in 1..n |-> 7]

\* Res payloads: target, num_contacts, k contacts and a residue
ResPayloads ==
    {KadId(1) \o <<n>> \o WireContacts(k) \o Filler(r) : n \in 0..2, k \in 0..2, r \in 0..1}
    \cup {<< >>, Filler(16)}

\* BootstrapResp payloads: a header that declares n contacts, k contacts and
\* a residue
BootstrapRespPayloads ==
    {KadId(1) \o U16ToLe(4242) \o <<8>> \o U16ToLe(n) \o WireContacts(k) \o Filler(r) :
        n \in 0..3, k \in 0..3, r \in {0, 1, 24}}

\* Req payloads: 33 bytes all different, a byte less, a byte more, none
ReqPayloads ==
    {[i \in 1..n |-> i] : n \in {0, ReqSize - 1, ReqSize, ReqSize + 1}}
    \cup {<<3>> \o KadId(1) \o KadId(2)}

\* tags on the wire: type, name_len, name, value; the value of a string
\* carries its length
TagNames == {<< >>, <<97>>, <<97, 98>>}
TagValues(t) ==
    IF t = TagType.Hash THEN {[i \in 1..16 |-> i]}
    ELSE IF t = TagType.String_ THEN {U16ToLe(0), U16ToLe(2) \o <<104, 105>>,
                                      U16ToLe(4) \o <<104, 105, 104, 105>>}
    ELSE IF t = TagType.Uint64 THEN {[i \in 1..8 |-> i]}
    ELSE IF t \in {TagType.Uint32, TagType.Float32} THEN {<<1, 2, 3, 4>>}
    ELSE IF t = TagType.Uint16 THEN {<<1, 2>>}
    ELSE IF t = TagType.Uint8 THEN {<<5>>}
    ELSE {<< >>, <<1>>}
WireTag(t, name, value) == <<t>> \o U16ToLe(Len(name)) \o name \o value
WireTags ==
    UNION {{WireTag(t, name, v) : name \in TagNames, v \in TagValues(t)} :
              t \in TagTypeValues \cup {0, 12, 255}}
\* the tag of the test tag_basic and what follows it there
BasicTag == WireTag(TagType.Uint8, <<97>>, <<5>>)
BasicRest == <<255, 238>>
TagBuffers ==
    UNION {Prefixes(w) : w \in WireTags} \cup {w \o BasicRest : w \in WireTags}

\* tag lists on the wire: the count in four bytes, the tags, the rest
ListTags == <<BasicTag, WireTag(TagType.Uint16, <<98>>, <<1, 2>>)>>
TagListBuffers ==
    {<<n, 0, 0, 0>> \o Flatten(SubSeq(ListTags, 1, n)) \o rest :
        n \in 0..2, rest \in {<< >>, BasicRest}}
    \cup Prefixes(<<1, 0, 0, 0>> \o BasicTag)

\* Kad packets: an opcode and a payload the opcode's parser takes, and
\* opcodes without a payload
KadPackets ==
    {<<OpBootstrapResp>> \o b : b \in {x \in BootstrapRespPayloads : IsOk(BootstrapRespFromSlice(x))}}
    \cup {<<OpReq>> \o b : b \in {x \in ReqPayloads : IsOk(ReqFromSlice(x))}}
    \cup {<<OpRes>> \o b : b \in {x \in ResPayloads : IsOk(ResFromSlice(x))}}
    \cup {<<OpSearchRes>> \o KadId(1) \o KadId(2) \o U16ToLe(0)}
    \cup {<<OpBootstrapReq>>, <<0>>, <<255>>}

\* u32::to_le_bytes
U32ToLe(n) == <<n % 256, (n \div 256) % 256, (n \div 65536) % 256, n \div 16777216>>

\* nodes.dat files.  The header of a version: the count alone for version 0;
\* a zero, the version and the count from version 1; the edition before the
\* count in version 3.
NodesHeader(version, edition, count) ==
    IF version = 0 THEN U32ToLe(count)
    ELSE U32ToLe(0) \o U32ToLe(version)
         \o (IF version = 3 THEN U32ToLe(edition) ELSE << >>) \o U32ToLe(count)

\* k entries of n bytes each, all different
NodesWireEntries(n, k) == [i \in 1..(n * k) |-> i]

\* the header kinds: version and edition
NodesKinds == {<<0, 0>>, <<1, 0>>, <<2, 0>>, <<3, 0>>, <<3, 1>>, <<4, 0>>}

\* files that declare c entries and carry k entries of 25 or of 34 bytes and
\* a residue; every prefix of a file of one entry
NodesFiles ==
    {NodesHeader(h[1], h[2], c) \o NodesWireEntries(n, k) \o Filler(r) :
        h \in NodesKinds, c \in 0..MaxEntries, k \in 0..MaxEntries, n \in {25, 34},
        r \in 0..1}
    \cup UNION {Prefixes(NodesHeader(h[1], h[2], 1) \o NodesWireEntries(34, 1)) :
                   h \in NodesKinds}

\* what follows the header of a bootstrap file: the count and the records
NodesBootstrapBodies ==
    {U32ToLe(c) \o NodesWireEntries(25, k) \o Filler(r) :
        c \in 0..MaxEntries, k \in 0..MaxEntries, r \in 0..1} \cup {<< >>, <<1, 0>>}

\* known2 files.  A hash of HASHSIZE bytes that starts with k; the tree
\* number id with ct children, all hashes different; the bytes of a list of
\* trees: root hash, child count, children
Known2Hash(k) == [i \in 1..HASHSIZE |-> IF i = 1 THEN k ELSE i]
Known2Tree(id, ct) ==
    [root |-> Known2Hash(16 * id), children |-> [j \in 1..ct |-> Known2Hash(16 * id + j)]]
Known2Encode(trees) ==
    Flatten([i \in 1..Len(trees) |->
        trees[i].root \o U32ToLe(Len(trees[i].children)) \o Flatten(trees[i].children)])

\* the lists of at most MaxTrees trees of at most MaxEntries children
Known2TreeLists ==
    UNION {{[i \in 1..n |-> Known2Tree(i, cts[i])] : cts \in [1..n -> 0..MaxEntries]} :
              n \in 0..MaxTrees}

\* every prefix of a file of such a list behind the marker 0x02 or behind
\* another first byte
Known2Files ==
    UNION {Prefixes(<<m>> \o Known2Encode(t)) : m \in {KNOWN2_MET_VERSION, 1},
                                                t \in Known2TreeLists}

\* clients.met files.  A record of the given size whose byte at the offset
\* of key_size is ks, the other bytes following the record number
CreditRecord(id, ks, size) == [i \in 1..size |-> IF i = 39 THEN ks ELSE (i + id) % 256]

\* the record sizes tried: the two struct sizes, and 42 and 42 + 1 + 80
CreditRecordSizes == {SizeOfCreditData29a, SizeOfCreditData, 42, 42 + 1 + MAX_PUBKEYSIZE}

\* files of a version byte, a count c, k records of one size and a residue;
\* every prefix of a header
ClientsMetFiles ==
    {<<v>> \o U32ToLe(c) \o Flatten([i \in 1..k |-> CreditRecord(i, ks, size)]) \o Filler(r) :
        v \in {CREDITFILE_VERSION_29, CREDITFILE_VERSION, 16}, c \in 0..MaxEntries,
        k \in 0..MaxEntries, size \in CreditRecordSizes,
        ks \in {0, 2, MAX_PUBKEYSIZE, MAX_PUBKEYSIZE + 1}, r \in 0..1}
    \cup UNION {Prefixes(<<v>> \o U32ToLe(1)) :
                   v \in {CREDITFILE_VERSION_29, CREDITFILE_VERSION}}

ParseBuffers(fn) ==
    CASE fn = "Packet::kind" -> CodecBuffers
      [] fn = "KadPacket::operation" -> KadPackets
      [] fn = "BootstrapResp::contacts" -> BootstrapRespPayloads
      [] fn = "Res::from_slice" -> ResPayloads
      [] fn = "TagList::from_slice" -> TagListBuffers
      [] fn = "Tag::from_slice" -> TagBuffers
      [] fn = "Req::from_slice" -> ReqPayloads
      [] fn = "nodes::parse" -> NodesFiles
      [] fn = "nodes::parse_bootstrap" -> NodesBootstrapBodies
      [] fn = "known2::parse" -> Known2Files
      [] fn = "clientcredit::parse" -> ClientsMetFiles

\* what the call gives: the value returned, and for a value that has
\* accessors or an iterator, what they give
ParseResult(fn, b, z) ==
    CASE fn = "Packet::kind" ->
            LET p == PacketFromSlice(b) IN IF p.tag = "Err" THEN p ELSE PacketKind(b, z)
      [] fn = "KadPacket::operation" -> KadOperation(b)
      [] fn = "BootstrapResp::contacts" ->
            LET r == BootstrapRespFromSlice(b) IN
            IF r.tag = "Err" THEN r
            ELSE LET c == contacts(r) IN
                 IF c.tag = "Err" THEN c
                 ELSE [tag |-> "Contacts",
                       items |-> [i \in 1..ContactsCount(c) |-> ContactsItem(c, i)]]
      [] fn = "Res::from_slice" ->
            LET r == ResFromSlice(b) IN
            IF r.tag = "Err" THEN r
            ELSE [tag |-> "Res", target |-> res_target(b), num_contacts |-> res_num_contacts(b),
                  contacts |-> ResContactsIter(res_contact_bytes(b))]
      [] fn = "TagList::from_slice" -> TagListFromSlice(b)
      [] fn = "Tag::from_slice" ->
            LET t == TagFromSlice(b) IN
            IF t.tag # "Ok" THEN t
            ELSE [tag |-> "Ok", raw |-> t.raw, rem |-> t.rem, name |-> tag_name(t),
                  value |-> tag_value(t)]
      [] fn = "Req::from_slice" ->
            LET r == ReqFromSlice(b) IN
            IF r.tag = "Err" THEN r
            ELSE [tag |-> "Req", type_ |-> req_type(r), target |-> req_target(r),
                  check |-> req_check(r)]
      [] fn = "nodes::parse" -> NodesParse(b)
      [] fn = "nodes::parse_bootstrap" -> NodesParseBootstrap(b)
      [] fn = "known2::parse" -> Known2Parse(b)
      [] fn = "clientcredit::parse" -> ClientCreditParse(b)

ParseCall ==
    /\ c_pc = "idle"
    /\ \E fn \in ParseFns : \E b \in ParseBuffers(fn), z \in InflateOutcomes :
        /\ z.tag = "Err" \/ (fn = "Packet::kind" /\ IsPacked(b))
        /\ c_pc' = fn
        /\ c_buf' = b
        /\ c_z' = z
    /\ UNCHANGED <<storeVars, now, senderVars, recvVars, importVars, c_res, openVars>>

ParseReturn ==
    /\ c_pc \in ParseFns
    /\ c_res' = [fn |-> c_pc, out |-> ParseResult(c_pc, c_buf, c_z)]
    /\ c_pc' = "returned"
    /\ UNCHANGED <<storeVars, now, senderVars, recvVars, importVars, c_buf, c_z, openVars>>

NextParse == ParseCall \/ ParseReturn

SpecParse == InitCodec /\ [][NextParse]_vars

\* the parser fn has returned
Returned(fn) == c_pc = "returned" /\ c_res.fn = fn

(***************************************************************************)
(* Store::new (collect-peers/src/main.rs): every opener runs it on the     *)
(* database of the URI.  A database is the record of its tables, a table   *)
(* that does not exist being << >> and one that exists <<its content>>.    *)
(* What an opener's transaction has written is its own copy of the         *)
(* database until COMMIT installs it; a transaction dropped without COMMIT *)
(* leaves the database as it was.  Every statement may fail.               *)
(***************************************************************************)
STORE_V1 == "remule/collect/1"
STORE_V2 == "remule/collect/2"
STORE_V3 == "remule/collect/3"
CURRENT_STORE_VERSION == STORE_V3

Openers == 1..MaxOpeners

\* the columns of the legacy table peers the statements of Store::new name
LegacyColumnsV1 == {"id", "ip", "udp_port", "last_send", "last_heard"}
LegacyColumnsV2 == {"id", "ip", "udp_port", "last_send", "last_report", "last_recv"}

NoDatabase == [version |-> << >>, peers |-> << >>, peer |-> << >>, report |-> << >>,
               report_contact |-> << >>]

VersionRow(v, ts) == [version |-> v, ts |-> ts]

\* the databases an opener may find: none, one at each version, one whose
\* latest version is not known, one whose version table is empty
OpenDatabases ==
    { NoDatabase,
      [NoDatabase EXCEPT !.version = << <<VersionRow(STORE_V1, 500)>> >>,
                         !.peers = << [cols |-> LegacyColumnsV1, rows |-> LegacyPeers] >>],
      [NoDatabase EXCEPT !.version = << <<VersionRow(STORE_V1, 300), VersionRow(STORE_V2, 500)>> >>,
                         !.peers = << [cols |-> LegacyColumnsV2, rows |-> LegacyPeersResent] >>],
      [NoDatabase EXCEPT !.version = << <<VersionRow(STORE_V3, 500)>> >>,
                         !.peer = << << >> >>, !.report = << << >> >>,
                         !.report_contact = << << >> >>],
      [NoDatabase EXCEPT !.version = << <<VersionRow("remule/collect/4", 500)>> >>],
      [NoDatabase EXCEPT !.version = << << >> >>] }

\* A statement is the set of databases it may leave, empty when it fails.

\* ALTER TABLE peers ADD COLUMN last_recv INTEGER;
\* ALTER TABLE peers RENAME COLUMN last_heard TO last_report
AlterPeersV2(d) ==
    IF d.peers = << >> THEN {}
    ELSE LET cols == d.peers[1].cols IN
         IF "last_recv" \in cols \/ "last_heard" \notin cols \/ "last_report" \in cols
         THEN {}
         ELSE {[d EXCEPT !.peers[1].cols =
                   (cols \ {"last_heard"}) \cup {"last_recv", "last_report"}]}

\* CREATE TABLE peer, report, report_contact
CreateCollectTables(d) ==
    IF d.peer # << >> \/ d.report # << >> \/ d.report_contact # << >> THEN {}
    ELSE {[d EXCEPT !.peer = << << >> >>, !.report = << << >> >>,
                    !.report_contact = << << >> >>]}

\* the statements of the v2 -> v3 migration: the databases they may leave
\* (one for each order of the groups), none when one of them fails
SeedAndDropPeers(d) ==
    IF d.peers = << >>
       \/ ~({"id", "ip", "udp_port", "last_send"} \subseteq d.peers[1].cols)
    THEN {}
    ELSE { [e EXCEPT !.peer = <<t>>, !.peers = << >>] :
             e \in CreateCollectTables(d), t \in SeedPeerTables(d.peers[1].rows) }

\* CREATE TABLE version and the three tables of the collector
CreateSchema(d) ==
    IF d.version # << >> THEN {}
    ELSE {[e EXCEPT !.version = << << >> >>] : e \in CreateCollectTables(d)}

\* INSERT INTO version (version, ts) VALUES ($1, $2)
InsertVersion(d, v, ts) ==
    IF d.version = << >> THEN {}
    ELSE {[d EXCEPT !.version[1] = Append(@, VersionRow(v, ts))]}

\* SELECT version, ts FROM version ORDER BY ts DESC LIMIT 1: the rows it
\* may return (rows of one ts come in no order)
LatestVersionRows(d) ==
    LET rows == d.version[1] IN
    {rows[i] : i \in {j \in 1..Len(rows) : \A k \in 1..Len(rows) : rows[k].ts <= rows[j].ts}}

\* what the statements of opener o read: its own writes, else the database
OpenView(o) == IF o_tx[o] # << >> THEN o_tx[o][1] ELSE db

\* SQLite lets one transaction write at a time, and lets a transaction that
\* has read write only while the database is the one it read
CanWrite(o) ==
    /\ o_writer \in {0, o}
    /\ o_base[o] = << >> \/ o_base[o][1] = db

Written(o, outcomes) == IF CanWrite(o) THEN outcomes ELSE {}

\* an error returned with `?`, or a panic: the transaction is dropped
OpenEnds(o, how, e) ==
    /\ o_pc' = [o_pc EXCEPT ![o] = how]
    /\ o_err' = [o_err EXCEPT ![o] = e]
    /\ o_tx' = [o_tx EXCEPT ![o] = << >>]
    /\ o_base' = [o_base EXCEPT ![o] = << >>]
    /\ o_writer' = IF o_writer = o THEN 0 ELSE o_writer
    /\ UNCHANGED <<engineVars, db, o_v, o_ts, o_executed_update, g_applied, g_read>>

\* a statement of opener o has written d inside its transaction
OpenWrote(o, d, step) ==
    /\ o_tx' = [o_tx EXCEPT ![o] = <<d>>]
    /\ o_writer' = o
    /\ g_applied' = [g_applied EXCEPT ![o] = Append(@, step)]

\* connect_with(..) and db.begin().await.unwrap()
OpenBegin(o) ==
    /\ o_pc[o] = "begin"
    /\ o_pc' = [o_pc EXCEPT ![o] = "select"]
    /\ UNCHANGED <<engineVars, db, o_writer, o_v, o_ts, o_executed_update, o_base, o_tx, o_err,
                   g_applied, g_read>>

OpenBeginErr(o) ==
    /\ o_pc[o] = "begin"
    /\ \/ OpenEnds(o, "failed", "DbPoolOpen")
       \/ OpenEnds(o, "panicked", "begin")

\* the version probe
OpenSelectVersion(o) ==
    /\ o_pc[o] = "select"
    /\ IF db.version = << >>
       THEN /\ o_pc' = [o_pc EXCEPT ![o] = "create"]
            /\ UNCHANGED <<engineVars, db, o_writer, o_v, o_ts, o_executed_update, o_base, o_tx,
                           o_err, g_applied, g_read>>
       ELSE IF db.version[1] = << >>
       THEN OpenEnds(o, "failed", "DbVersion")
       ELSE \E r \in LatestVersionRows(db) :
              IF r.ts < 0
              THEN OpenEnds(o, "panicked", "from_unix_millis")
              ELSE /\ o_v' = [o_v EXCEPT ![o] = r.version]
                   /\ o_ts' = [o_ts EXCEPT ![o] = r.ts]
                   /\ g_read' = [g_read EXCEPT ![o] = r.version]
                   /\ o_base' = [o_base EXCEPT ![o] = <<db>>]
                   /\ o_pc' = [o_pc EXCEPT ![o] = "loop"]
                   /\ UNCHANGED <<engineVars, db, o_writer, o_executed_update, o_tx, o_err,
                                  g_applied>>

OpenSelectVersionErr(o) ==
    /\ o_pc[o] = "select"
    /\ OpenEnds(o, "failed", "DbVersion")

\* a variant of OpenV1Arm that takes the altered table for the current
\* schema
OpenV1ArmToCurrent(o) ==
    /\ o_pc[o] = "loop" /\ o_v[o] = STORE_V1
    /\ \E d \in Written(o, AlterPeersV2(OpenView(o))) : OpenWrote(o, d, "v1_v2")
    /\ o_executed_update' = [o_executed_update EXCEPT ![o] = TRUE]
    /\ o_v' = [o_v EXCEPT ![o] = STORE_V3]
    /\ UNCHANGED <<engineVars, db, o_pc, o_ts, o_base, o_err, g_read>>

\* the STORE_V1 arm of 'version_update
OpenV1Arm(o) ==
    /\ o_pc[o] = "loop" /\ o_v[o] = STORE_V1
    /\ \E d \in Written(o, AlterPeersV2(OpenView(o))) : OpenWrote(o, d, "v1_v2")
    /\ o_executed_update' = [o_executed_update EXCEPT ![o] = TRUE]
    /\ o_v' = [o_v EXCEPT ![o] = STORE_V2]
    /\ UNCHANGED <<engineVars, db, o_pc, o_ts, o_base, o_err, g_read>>

OpenV1ArmErr(o) ==
    /\ o_pc[o] = "loop" /\ o_v[o] = STORE_V1
    /\ OpenEnds(o, "failed", "DbUpgrade")

\* the STORE_V2 arm
OpenV2Arm(o) ==
    /\ o_pc[o] = "loop" /\ o_v[o] = STORE_V2
    /\ \E d \in Written(o, SeedAndDropPeers(OpenView(o))) : OpenWrote(o, d, "v2_v3")
    /\ o_executed_update' = [o_executed_update EXCEPT ![o] = TRUE]
    /\ o_v' = [o_v EXCEPT ![o] = STORE_V3]
    /\ UNCHANGED <<engineVars, db, o_pc, o_ts, o_base, o_err, g_read>>

OpenV2ArmErr(o) ==
    /\ o_pc[o] = "loop" /\ o_v[o] = STORE_V2
    /\ OpenEnds(o, "failed", "DbUpgrade")

\* the CURRENT_STORE_VERSION arm
OpenCurrentArm(o) ==
    /\ o_pc[o] = "loop" /\ o_v[o] = CURRENT_STORE_VERSION
    /\ IF o_executed_update[o]
       THEN \E d \in Written(o, InsertVersion(OpenView(o), CURRENT_STORE_VERSION,
                                               AsUnixMillis(now))) :
              OpenWrote(o, d, "insert_version")
       ELSE UNCHANGED <<o_tx, o_writer, g_applied>>
    /\ o_pc' = [o_pc EXCEPT ![o] = "commit"]
    /\ UNCHANGED <<engineVars, db, o_v, o_ts, o_executed_update, o_base, o_err, g_read>>

OpenCurrentArmErr(o) ==
    /\ o_pc[o] = "loop" /\ o_v[o] = CURRENT_STORE_VERSION /\ o_executed_update[o]
    /\ OpenEnds(o, "failed", "DbInsertVersion")

\* the arm of any other version
OpenUnknownArm(o) ==
    /\ o_pc[o] = "loop" /\ o_v[o] \notin {STORE_V1, STORE_V2, STORE_V3}
    /\ OpenEnds(o, "failed", "DbUnknownVersion")

\* no version table: create the schema, then insert the first version row
OpenCreate(o) ==
    /\ o_pc[o] = "create"
    /\ \E d \in Written(o, CreateSchema(OpenView(o))) : OpenWrote(o, d, "create")
    /\ o_pc' = [o_pc EXCEPT ![o] = "insert_version"]
    /\ UNCHANGED <<engineVars, db, o_v, o_ts, o_executed_update, o_base, o_err, g_read>>

OpenCreateErr(o) ==
    /\ o_pc[o] = "create"
    /\ OpenEnds(o, "failed", "DbCreateTable")

OpenInsertFirstVersion(o) ==
    /\ o_pc[o] = "insert_version"
    /\ \E d \in Written(o, InsertVersion(OpenView(o), CURRENT_STORE_VERSION,
                                          AsUnixMillis(now))) :
          OpenWrote(o, d, "insert_version")
    /\ o_pc' = [o_pc EXCEPT ![o] = "commit"]
    /\ UNCHANGED <<engineVars, db, o_v, o_ts, o_executed_update, o_base, o_err, g_read>>

OpenInsertFirstVersionErr(o) ==
    /\ o_pc[o] = "insert_version"
    /\ OpenEnds(o, "failed", "DbInsertVersion")

\* c.commit()
OpenCommit(o) ==
    /\ o_pc[o] = "commit"
    /\ db' = OpenView(o)
    /\ o_tx' = [o_tx EXCEPT ![o] = << >>]
    /\ o_base' = [o_base EXCEPT ![o] = << >>]
    /\ o_writer' = IF o_writer = o THEN 0 ELSE o_writer
    /\ o_pc' = [o_pc EXCEPT ![o] = "done"]
    /\ UNCHANGED <<engineVars, o_v, o_ts, o_executed_update, o_err, g_applied, g_read>>

OpenCommitErr(o) ==
    /\ o_pc[o] = "commit"
    /\ OpenEnds(o, "failed", "DbCreateCommit")

OpenStep(o) ==
    \/ OpenBegin(o) \/ OpenBeginErr(o)
    \/ OpenSelectVersion(o) \/ OpenSelectVersionErr(o)
    \/ OpenV1Arm(o) \/ OpenV1ArmErr(o)
    \/ OpenV2Arm(o) \/ OpenV2ArmErr(o)
    \/ OpenCurrentArm(o) \/ OpenCurrentArmErr(o)
    \/ OpenUnknownArm(o)
    \/ OpenCreate(o) \/ OpenCreateErr(o)
    \/ OpenInsertFirstVersion(o) \/ OpenInsertFirstVersionErr(o)
    \/ OpenCommit(o) \/ OpenCommitErr(o)

InitOpen ==
    /\ peer = << >> /\ EngineInit /\ CodecIdle
    /\ db \in OpenDatabases
    /\ o_writer = 0
    /\ o_pc = [o \in Openers |-> "begin"]
    /\ o_v = [o \in Openers |-> ""]
    /\ o_ts = [o \in Openers |-> 0]
    /\ o_executed_update = [o \in Openers |-> FALSE]
    /\ o_base = [o \in Openers |-> << >>]
    /\ o_tx = [o \in Openers |-> << >>]
    /\ o_err = [o \in Openers |-> ""]
    /\ g_applied = [o \in Openers |-> << >>]
    /\ g_read = [o \in Openers |-> ""]

NextOpen == (\E o \in Openers : OpenStep(o)) \/ ClockTick

SpecOpen == InitOpen /\ [][NextOpen]_vars

(***************************************************************************)
(* Claims.                                                                 *)
(***************************************************************************)

\* C3: for every received buffer the decoding path Packet::from_slice ->
\* kind() -> KadPacket::operation() ends in an operation, None or an error
\* value, and never panics.
C3_DecodeNeverPanics == c_pc = "decoded" => c_res.tag # "Panic"


\* C1: last_send_time of a peer changes only in the step in which the
\* sender marks that peer, after a send_to to that peer's address has
\* returned success in the same round of the loop.
C1_MarkOnlyAfterSend ==
    [][\A i \in 1..Len(peer) :
          peer'[i].last_send_time # peer[i].last_send_time
          => /\ s_pc = "mark" /\ s_peer.id = i
             /\ g_sent.ok /\ g_sent.id = i
             /\ g_sent.to = <<IpParse(peer[i].ip), peer[i].udp_port>>]_vars

\* the sender has just marked a peer, at the current time
C1_Witness ==
    /\ s_pc = "tick"
    /\ \E i \in 1..Len(peer) : peer[i].last_send_time = <<AsUnixMillis(now)>>

\* C2: no two rows of peer have the same (kad_id, ip, udp_port).
C2_PeerKeyUnique ==
    \A i, j \in 1..Len(peer) : RowKey(peer[i]) = RowKey(peer[j]) => i = j

\* a migrated store in which the import found its node present and the
\* handler has upserted a source peer, a self contact and two named contacts
C2_Witness ==
    /\ Len(peer) = 3 /\ i_pc = "done" /\ i_insert_ct = 0
    /\ g_last = "ok" /\ r_dg = 2
    /\ \E i \in 1..Len(peer) : peer[i].last_send_time = <<1000>>

\* what a well-formed response says, by the datagram and its inflation
ResponseOf(dg) == IF dg = 2 THEN Responses[2] ELSE Responses[1]

RowOfPeer(id, ip, port) == <<KadIdToText(id), IpToText(ip), port>>

\* C4: when the handler has returned Ok for a well-formed BootstrapResp from
\* address A, the source peer (client_id, A.ip, A.port) is present; exactly
\* one report is new, rooted at it, with the receive time; the next new
\* report_contact is the reporter's, at (client_id, A.ip, client_port) with
\* tcp_port and version NULL; and exactly one more follows per named
\* contact, in order, with the contact's tcp_port and version.
C4_HandledResponseRecorded ==
    g_last = "ok" =>
        LET m == ResponseOf(r_dg)
            n == Len(m.cs)
            rep == g_report0 + 1
        IN /\ \E i \in 1..Len(peer) : RowKey(peer[i]) = RowOfPeer(m.client_id, r_addr.ip, r_addr.port)
           /\ Len(report) = g_report0 + 1
           /\ RowKey(peer[report[rep].source_peer]) = RowOfPeer(m.client_id, r_addr.ip, r_addr.port)
           /\ report[rep].recv_time = r_stime * 1000
           /\ Len(report_contact) = g_rc0 + 1 + n
           /\ report_contact[g_rc0 + 1].report_id = rep
           /\ RowKey(peer[report_contact[g_rc0 + 1].reported_peer_id])
                 = RowOfPeer(m.client_id, r_addr.ip, m.client_port)
           /\ report_contact[g_rc0 + 1].tcp_port = << >>
           /\ report_contact[g_rc0 + 1].contact_version = << >>
           /\ \A k \in 1..n :
                LET rc == report_contact[g_rc0 + 1 + k] IN
                /\ rc.report_id = rep
                /\ RowKey(peer[rc.reported_peer_id])
                      = RowOfPeer(m.cs[k].id, m.cs[k].ip, m.cs[k].udp_port)
                /\ rc.tcp_port = <<m.cs[k].tcp_port>>
                /\ rc.contact_version = <<m.cs[k].version>>

\* the response with two contacts and a port that is not the sender's has
\* been handled
C4_Witness == g_last = "ok" /\ r_dg = 2 /\ Len(report_contact) = 3

\* C5: a datagram whose decoding raises a buffer-shape error leaves no
\* report and no report_contact behind.
C5_RejectedLeavesNoRow ==
    g_last = "err" => Len(report) = g_report0 /\ Len(report_contact) = g_rc0

\* C6: the receiver loop is never ended by the handling of a datagram.
C6_ReceiverNeverEnds == r_pc # "panicked"

\* C7: a failing store operation ends neither the sender nor the receiver.
C7_StoreErrEndsNoTask == s_pc # "panicked" /\ g_last # "store_panic"

NullsFirstLeq(a, b) == a = << >> \/ (b # << >> /\ a[1] <= b[1])

\* C8: what a peers() stream yields, followed by what it still holds, is
\* every row the table had when the query ran, once each, as (id, kad_id,
\* ip, udp_port), in non-decreasing order of the last_send_time the query
\* read, NULL first.
C8_StreamOrdered ==
    LET all == g_seen \o s_stream IN
    /\ Len(all) = g_qlen
    /\ {all[k].id : k \in 1..Len(all)} = 1..g_qlen
    /\ \A a, b \in 1..Len(all) : a < b => NullsFirstLeq(all[a].at_query, all[b].at_query)
    /\ \A k \in 1..Len(all) :
          /\ KadIdToText(all[k].kad_id) = peer[all[k].id].kad_id
          /\ IpToText(all[k].addr[1]) = peer[all[k].id].ip
          /\ all[k].addr[2] = peer[all[k].id].udp_port

\* a stream is used up that yielded a never-sent peer before a sent one,
\* while the sender marked the first and the table grew
C8_Witness ==
    /\ s_pc = "next" /\ s_stream = << >> /\ Len(g_seen) >= 2
    /\ g_seen[1].at_query = << >> /\ g_seen[Len(g_seen)].at_query # << >>
    /\ peer[g_seen[1].id].last_send_time # << >>
    /\ Len(peer) > g_qlen

\* C9: when send_to fails the sender does not mark the peer, sleeps 1 s and
\* goes on with the next item of the same stream.
C9_SendFailure ==
    [][/\ (s_pc = "send" /\ s_pc' # "send" /\ ~g_sent'.ok)
            => s_pc' = "sleep" /\ s_wake' = now + 1 /\ s_stream' = s_stream /\ peer' = peer
       /\ s_pc = "sleep"
            => peer'[s_peer.id].last_send_time = peer[s_peer.id].last_send_time
       /\ (s_pc = "sleep" /\ s_pc' # "sleep")
            => s_pc' = "next" /\ now >= s_wake /\ s_stream' = s_stream]_vars

\* a send has failed, the sleep is over and the stream holds another peer
C9_Witness == s_pc = "sleep" /\ now >= s_wake /\ s_stream # << >>


MigrationFromV1 == <<"v1_v2", "v2_v3", "insert_version">>

IsPrefix(s, t) == Len(s) <= Len(t) /\ \A k \in 1..Len(s) : s[k] = t[k]

\* C10: for an opener whose version probe returned remule/collect/1, the
\* statements of its transaction are the v1 -> v2 migration, the v2 -> v3
\* migration and the insert of the version row, in that order, the row being
\* (remule/collect/3, now); the database changes only in a successful
\* COMMIT, which installs all of it at once: the v3 tables, no legacy table,
\* and the old version log with that one row appended; when the opener
\* fails, the database stays as it was.
C10_MigrateFromV1 ==
    [][/\ db' # db => \E o \in Openers :
                        o_pc[o] = "commit" /\ o_pc'[o] = "done" /\ o_tx[o] = <<db'>>
       /\ \A o \in Openers : g_read[o] = STORE_V1 =>
            /\ IsPrefix(g_applied'[o], MigrationFromV1)
            /\ (g_applied'[o] = MigrationFromV1 /\ g_applied[o] # MigrationFromV1)
                  => o_tx'[o][1].version[1]
                       = Append(db.version[1], VersionRow(STORE_V3, now * 1000))
            /\ (o_pc[o] = "commit" /\ o_pc'[o] = "done")
                  => /\ g_applied[o] = MigrationFromV1
                     /\ db'.peers = << >> /\ db'.peer # << >>
                     /\ db'.report # << >> /\ db'.report_contact # << >>
                     /\ Len(db'.version[1]) = Len(db.version[1]) + 1
                     /\ SubSeq(db'.version[1], 1, Len(db.version[1])) = db.version[1]
                     /\ db'.version[1][Len(db'.version[1])].version = STORE_V3
            /\ (o_pc'[o] # o_pc[o] /\ o_pc'[o] \in {"failed", "panicked"})
                  => db' = db /\ o_tx'[o] = << >>]_vars

\* an opener that found version 1 has committed both migrations
C10_Witness ==
    \E o \in Openers :
        /\ o_pc[o] = "done" /\ g_read[o] = STORE_V1
        /\ g_applied[o] = MigrationFromV1
        /\ db.peers = << >> /\ Len(db.version[1]) = 2


\* the legacy rows of key k, and the greatest of their last_send
LegacyRowsOf(rows, k) == {i \in 1..Len(rows) : LegacyKey(rows[i]) = k}

IsMaxOfLegacy(rows, k, t) ==
    IF \A i \in LegacyRowsOf(rows, k) : rows[i].last_send = << >>
    THEN t = << >>
    ELSE /\ \E i \in LegacyRowsOf(rows, k) : rows[i].last_send = t
         /\ \A i \in LegacyRowsOf(rows, k) :
               rows[i].last_send # << >> => rows[i].last_send[1] <= t[1]

\* peer holds one row for each key of the legacy rows, with the greatest
\* last_send of the key, and nothing else
PreservesLegacy(legacy, new) ==
    /\ \A i \in 1..Len(legacy) :
          Cardinality({j \in 1..Len(new) :
             <<new[j].kad_id, new[j].ip, new[j].udp_port>> = LegacyKey(legacy[i])}) = 1
    /\ \A j \in 1..Len(new) :
          LET k == <<new[j].kad_id, new[j].ip, new[j].udp_port>> IN
          /\ LegacyRowsOf(legacy, k) # {}
          /\ IsMaxOfLegacy(legacy, k, new[j].last_send_time)

HasApplied(o, step) == \E n \in 1..Len(g_applied[o]) : g_applied[o][n] = step

\* C11: the statements of the v2 -> v3 migration leave, for every distinct
\* (kad_id, ip, udp_port) of the legacy peers table, exactly one row of peer,
\* whose last_send_time is the greatest last_send of the legacy rows of that
\* key (NULL when all are NULL); peer holds no other row, and the legacy
\* table is dropped.  The same holds of the database before and after the
\* COMMIT of an opener that ran the migration.
C11_SeedPreservesLegacyPeers ==
    [][\A o \in Openers :
         /\ (~HasApplied(o, "v2_v3") /\ HasApplied(o, "v2_v3")')
               => /\ o_tx'[o][1].peers = << >>
                  /\ PreservesLegacy(OpenView(o).peers[1].rows, o_tx'[o][1].peer[1])
         /\ (o_pc[o] = "commit" /\ o_pc'[o] = "done" /\ HasApplied(o, "v2_v3"))
               => /\ db'.peers = << >>
                  /\ PreservesLegacy(db.peers[1].rows, db'.peer[1])]_vars

\* an opener has committed the migration of a legacy table of four rows and
\* two keys, one of them sent to at 1000 and at 2000
C11_Witness ==
    \E o \in Openers :
        /\ o_pc[o] = "done" /\ g_read[o] = STORE_V2
        /\ db.peers = << >> /\ db.peer # << >>
        /\ Len(db.peer[1]) = 2
        /\ \E j \in 1..2 : db.peer[1][j].last_send_time = <<2000>>
        /\ \E j \in 1..2 : db.peer[1][j].last_send_time = << >>


\* C12: of two openers that run Store::new on a database without a version
\* table, one creates the schema and the first version row and the other
\* opens the database it committed: the database never holds two first
\* version rows, and the CREATE TABLE statements of an opener that found no
\* version table, once it may write, succeed, so that no opener is bound to
\* fail.
C12_ConcurrentCreateOpens ==
    \A o \in Openers :
        /\ (HasApplied(o, "create") /\ db.version # << >>) => Len(db.version[1]) = 1
        /\ (o_pc[o] = "create" /\ CanWrite(o)) => CreateSchema(OpenView(o)) # {}


\* the rows of peer with the key of p
RowsOfKey(tbl, p) == {i \in 1..Len(tbl) : RowKey(tbl[i]) = PeerKey(p)}

\* C13: insert_peer reports a non-zero count exactly when no row with the
\* key existed before its INSERT, and then the row is there; the id it
\* returns is that of the single row with the key; the id of a row's key
\* never changes, so that repeated calls and concurrent calls (the handler's
\* and the import's) for one key return one id, and only the call that
\* added the row reports it as new.
C13_InsertPeerIdempotent ==
    [][/\ \A i \in 1..Len(peer) : i <= Len(peer') /\ RowKey(peer'[i]) = RowKey(peer[i])
       /\ (r_pc = "insert_peer" /\ r_pc' = "select_peer")
            => /\ (r_ct' # 0) <=> (RowsOfKey(peer, CurPeer) = {})
               /\ Cardinality(RowsOfKey(peer', CurPeer)) = 1
               /\ Len(peer') = Len(peer) + r_ct'
       /\ (r_pc = "select_peer" /\ r_pc' \in {"insert_report", "insert_report_contact"})
            => RowsOfKey(peer, CurPeer) = {r_sid'}
       /\ (i_pc = "insert_peer" /\ i_pc' = "select_peer")
            => /\ (i_ct' # 0) <=> (RowsOfKey(peer, i_nodes[i_idx]) = {})
               /\ Cardinality(RowsOfKey(peer', i_nodes[i_idx])) = 1
               /\ Len(peer') = Len(peer) + i_ct'
       /\ (i_pc = "select_peer" /\ i_pc' \in {"insert_peer", "done"})
            => /\ SelectPeerId(peer, i_nodes[i_idx]).tag = "Ok"
               /\ RowsOfKey(peer, i_nodes[i_idx]) = {SelectPeerId(peer, i_nodes[i_idx]).id}
               /\ i_insert_ct' = i_insert_ct + i_ct
               /\ (r_pc = "insert_report_contact" /\ CurPeer = i_nodes[i_idx])
                    => /\ SelectPeerId(peer, i_nodes[i_idx]).id = r_sid
                       /\ r_ct + i_ct <= 1]_vars

\* the import has added the peer of its node, and a call of the handler for
\* the same key, made after the source peer and the reporter were added,
\* found the row: it reports nothing new and returns the row's id
C13_Witness ==
    /\ i_pc = "done" /\ i_insert_ct = 1
    /\ r_pc = "insert_report_contact" /\ r_site = "contact"
    /\ CurPeer = ImportNodes[1]
    /\ r_ct = 0 /\ r_sid \in RowsOfKey(peer, ImportNodes[1])
    /\ Len(peer) = 3


\* what C14 says of the first bytes other than KademliaHeader
FramingOfOtherProto(b, z, k) ==
    /\ b[1] = \hE5 =>
         IF Len(b) < 2 THEN k = Err("PacketTooShort")
         ELSE IF z.tag = "Err" THEN k = Err("KadPackedDecompress")
         ELSE k = [tag |-> "Kad", raw |-> <<b[2]>> \o z.out]
    /\ b[1] \in {\hC5, \hD4, \hA3, \hB2} => k = Err("UnhandledUdpProto")
    /\ b[1] \notin {\hE4, \hE5, \hC5, \hD4, \hA3, \hB2} => k = Err("UnrecognizedUdpProto")

\* C14 as stated: Packet::from_slice(b) fails with PacketTooShort exactly
\* when b is empty; for a non-empty b, kind() yields a Kad packet with payload
\* b[1..] when b[0] = 0xE4; when b[0] = 0xE5 it requires |b| >= 2 and yields
\* the Kad packet of b[1] followed by the inflation of b[2..]
\* (KadPackedDecompress when the inflation fails); UnhandledUdpProto for 0xC5,
\* 0xD4, 0xA3, 0xB2 and UnrecognizedUdpProto for every other first byte.
C14_FramingAsStated ==
    Returned("Packet::kind") =>
        /\ (PacketFromSlice(c_buf) = Err("PacketTooShort")) <=> (c_buf = << >>)
        /\ c_buf # << >> =>
             /\ c_buf[1] = \hE4 => c_res.out = [tag |-> "Kad", raw |-> SliceFrom(c_buf, 1)]
             /\ FramingOfOtherProto(c_buf, c_z, c_res.out)

\* C14, amended: as stated, except that for b[0] = 0xE4 kind() yields the Kad
\* packet with payload b[1..] when |b| >= 2 and fails with KadPacketTooShort
\* when b is the single byte 0xE4 (a Kad packet holds at least its opcode).
C14_Framing ==
    Returned("Packet::kind") =>
        /\ (PacketFromSlice(c_buf) = Err("PacketTooShort")) <=> (c_buf = << >>)
        /\ c_buf # << >> =>
             /\ c_buf[1] = \hE4 =>
                  IF Len(c_buf) >= 2
                  THEN c_res.out = [tag |-> "Kad", raw |-> SliceFrom(c_buf, 1)]
                  ELSE c_res.out = Err("KadPacketTooShort")
             /\ FramingOfOtherProto(c_buf, c_z, c_res.out)

\* kind() has returned the Kad packet of a packed datagram: its opcode and
\* the inflated bytes
C14_Witness ==
    /\ Returned("Packet::kind")
    /\ Len(c_buf) > 2 /\ c_buf[1] = \hE5 /\ c_z.tag = "Ok"
    /\ c_res.out.tag = "Kad" /\ Len(c_res.out.raw) > 1


\* C15: for a Kad packet whose opcode is BootstrapResp (0x09), Req (0x21),
\* Res (0x29) or SearchRes (0x3B) and whose payload is well-formed,
\* operation() returns the Operation variant of that opcode on the payload;
\* for every other opcode byte it returns None.
C15_OpcodeDispatch ==
    Returned("KadPacket::operation") =>
        LET payload == SliceFrom(c_buf, 1) IN
        CASE c_buf[1] = \h09 -> c_res.out = [tag |-> "BootstrapResp", raw |-> payload]
          [] c_buf[1] = \h21 -> c_res.out = [tag |-> "Req", raw |-> payload]
          [] c_buf[1] = \h29 -> c_res.out.tag = "Res"
          [] c_buf[1] = \h3B -> c_res.out.tag = "SearchRes"
          [] OTHER -> c_res.out = [tag |-> "None"]


\* C16: for a BootstrapResp payload whose 21-byte header declares n
\* contacts, contacts() succeeds exactly when n * 25 bytes follow the header,
\* and fails with BootstrapRespContactsSizeMismatch otherwise; on success the
\* iterator yields n contacts, the i-th (from 0) backed by the bytes
\* [21 + 25 i, 21 + 25 (i + 1)) of the payload, and then ends: no step of it
\* panics.
C16_ContactsExactSize ==
    (Returned("BootstrapResp::contacts") /\ Len(c_buf) >= 21) =>
        LET n == c_buf[20] + 256 * c_buf[21]
            out == c_res.out
        IN /\ (out.tag = "Contacts") <=> (Len(c_buf) - 21 = n * 25)
           /\ out.tag # "Contacts" => out = Err("BootstrapRespContactsSizeMismatch")
           /\ out.tag = "Contacts" =>
                /\ Len(out.items) = n
                /\ \A i \in 0..(n - 1) :
                      out.items[i + 1] =
                        [tag |-> "Contact",
                         raw |-> SubSeq(c_buf, 21 + 25 * i + 1, 21 + 25 * (i + 1))]

\* contacts() of a response that declares three contacts and carries them
\* has been iterated to its end
C16_Witness ==
    /\ Returned("BootstrapResp::contacts")
    /\ c_res.out.tag = "Contacts" /\ Len(c_res.out.items) = 3
    /\ c_res.out.items[3].raw # c_res.out.items[2].raw


\* C17: Res::from_slice succeeds exactly when the payload holds 17 bytes and
\* 25 more for each of the num_contacts contacts its byte 16 announces, a
\* residue or a shortfall being an error; on the value it returns, contacts()
\* yields exactly num_contacts contacts and ends without a panic.
C17_ResExactSize ==
    Returned("Res::from_slice") =>
        /\ (c_res.out.tag = "Res") <=>
              (Len(c_buf) >= 17 /\ Len(c_buf) = 17 + 25 * c_buf[17])
        /\ c_res.out.tag # "Res" => c_res.out.tag = "Err"
        /\ c_res.out.tag = "Res" =>
              /\ c_res.out.contacts.end = "None"
              /\ Len(c_res.out.contacts.items) = c_res.out.num_contacts


\* the tags TagListIter yields on the item bytes before its first error
RECURSIVE TagsYielded(_)
TagsYielded(raw) ==
    LET t == TagListIterNext(raw) IN
    IF t.tag # "Ok" THEN << >> ELSE <<t.raw>> \o TagsYielded(t.rem)

\* C18: on a buffer that holds a count, that many well-formed tags and a
\* rest, TagList::from_slice does not panic and returns the list covering
\* the count and the tags, with the rest as remainder; the iterator of the
\* list yields exactly the count tags, then ends, and yields no error.
C18_TagListWellFormed ==
    Returned("TagList::from_slice") =>
        \A n \in 0..Len(ListTags), rest \in {<< >>, BasicRest} :
            LET list == <<n, 0, 0, 0>> \o Flatten(SubSeq(ListTags, 1, n)) IN
            c_buf = list \o rest =>
                /\ c_res.out.tag # "Panic"
                /\ c_res.out = [tag |-> "Ok", raw |-> list, rem |-> rest]
                /\ TagsYielded(SliceFrom(list, 4)) = SubSeq(ListTags, 1, n)
                /\ TagListIterNext(<< >>).tag # "Err"


\* what C19 says of a buffer: the tag types it decodes, the name length, the
\* size of the value and the size of the tag
C19Types == {1, 2, 3, 4, 8, 9, 11}
C19NameLen(b) == b[2] + 256 * b[3]
C19ValueSize(b) ==
    LET o == 3 + C19NameLen(b) IN
    CASE b[1] = 1 -> 16
      [] b[1] = 9 -> 1
      [] b[1] = 8 -> 2
      [] b[1] \in {3, 4} -> 4
      [] b[1] = 11 -> 8
      [] b[1] = 2 -> IF Len(b) >= o + 2 THEN 2 + b[o + 1] + 256 * b[o + 2] ELSE 2
C19Size(b) == 3 + C19NameLen(b) + C19ValueSize(b)
C19Decodable(b) == Len(b) >= 3 /\ b[1] \in C19Types /\ Len(b) >= C19Size(b)

\* C19: Tag::from_slice(buf) succeeds exactly when buf[0] is a decodable tag
\* type and |buf| >= 3 + name_len + value_size(type), and fails with an
\* error otherwise; on success the tag is the leading bytes of that size,
\* the remainder is the suffix, and name() and value() give the encoded name
\* and value; a first byte that is no tag type gives TagInvalid.
C19_TagFromSlice ==
    Returned("Tag::from_slice") =>
        LET b == c_buf
            out == c_res.out
        IN /\ out.tag \in {"Ok", "Err"}
           /\ (out.tag = "Ok") <=> C19Decodable(b)
           /\ C19Decodable(b) =>
                LET o == 3 + C19NameLen(b) IN
                /\ out.raw = SubSeq(b, 1, C19Size(b))
                /\ out.rem = SubSeq(b, C19Size(b) + 1, Len(b))
                /\ out.name = SubSeq(b, 4, o)
                /\ out.value.v = CASE b[1] = 9 -> b[o + 1]
                                   [] b[1] = 8 -> b[o + 1] + 256 * b[o + 2]
                                   [] b[1] = 2 -> SubSeq(b, o + 3, C19Size(b))
                                   [] OTHER -> SubSeq(b, o + 1, C19Size(b))
           /\ (b # << >> /\ b[1] \notin 1..11) => out = Err("TagInvalid")


\* C20: Req::from_slice accepts exactly the payloads of 33 bytes and gives
\* ReqSizeMismatch for any other; on an accepted payload type_() is byte 0,
\* target() the bytes 1..17 and check() the bytes 17..33 (each the
\* little-endian bytes of a u128).
C20_ReqLayout ==
    Returned("Req::from_slice") =>
        /\ (c_res.out.tag = "Req") <=> (Len(c_buf) = 33)
        /\ c_res.out.tag # "Req" => c_res.out = Err("ReqSizeMismatch")
        /\ c_res.out.tag = "Req" =>
              /\ c_res.out.type_ = c_buf[1]
              /\ c_res.out.target = SubSeq(c_buf, 2, 17)
              /\ c_res.out.check = SubSeq(c_buf, 18, 33)


\* C21: for a nodes.dat file of version 0, 1, 2 or 3 whose header declares
\* count entries, parse succeeds exactly when count entries of the
\* version's size (25 bytes below version 2, 34 from version 2) follow the
\* header and nothing else; it then returns count contacts of that version;
\* bytes after the last entry give the spare-bytes error, a missing or
\* truncated entry gives an error, and none of these panics.
C21_NodesExactEntries ==
    Returned("nodes::parse") =>
        \A h \in {k \in NodesKinds : k[1] <= 3}, count \in 0..MaxEntries :
            LET header == NodesHeader(h[1], h[2], count)
                body == Len(c_buf) - Len(header)
                size == IF h[1] < 2 THEN 25 ELSE 34
            IN (/\ h[1] = 0 => count > 0
                /\ body >= 0
                /\ SubSeq(c_buf, 1, Len(header)) = header)
               => /\ c_res.out.tag \in {"Ok", "Err"}
                  /\ (c_res.out.tag = "Ok") <=> (body = count * size)
                  /\ body > count * size => c_res.out = Err("spare bytes")
                  /\ body < count * size => c_res.out = Err("not enough bytes")
                  /\ c_res.out.tag = "Ok" =>
                        /\ c_res.out.version = h[1]
                        /\ Len(c_res.out.contacts) = count
                        /\ \A i \in 1..count :
                              c_res.out.contacts[i].uid
                                 = SubSeq(c_buf, Len(header) + size * (i - 1) + 1,
                                          Len(header) + size * (i - 1) + 16)


\* the buffer starts with the bytes p
StartsWith(b, p) == Len(b) >= Len(p) /\ SubSeq(b, 1, Len(p)) = p

\* C22: parse selects the layout from the header: a non-zero first u32 is
\* the count of a version 0 file; after a zero the next u32 is the version;
\* version 3 carries an edition, and edition 1 selects the bootstrap layout
\* of 25-byte records, the result being marked is_bootstrap; a version above
\* 3 is rejected with the unknown-version error; a header cut short at any
\* point gives an error.
C22_NodesHeader ==
    Returned("nodes::parse") =>
        /\ (Len(c_buf) >= 4 /\ SubSeq(c_buf, 1, 4) # U32ToLe(0) /\ c_res.out.tag = "Ok")
              => /\ c_res.out.version = 0
                 /\ U32ToLe(Len(c_res.out.contacts)) = SubSeq(c_buf, 1, 4)
        /\ \A count \in 0..MaxEntries :
              c_buf = NodesHeader(3, 1, count) \o NodesWireEntries(25, count)
                 => /\ c_res.out.tag = "Ok"
                    /\ c_res.out.is_bootstrap
                    /\ Len(c_res.out.contacts) = count
        /\ StartsWith(c_buf, U32ToLe(0) \o U32ToLe(4)) => c_res.out = Err("unknown version")
        /\ (\E h \in NodesKinds :
               LET header == NodesHeader(h[1], h[2], 1) IN
               Len(c_buf) < Len(header) /\ c_buf = SubSeq(header, 1, Len(c_buf)))
              => c_res.out.tag = "Err"


\* C23: parse of a known2 file succeeds exactly when the first byte is 0x02
\* and the rest is a concatenation of whole records root hash | child count
\* | that many child hashes; it then returns one tree per record, in file
\* order, each with its root and its children in order (the marker alone
\* gives the empty list); every other input gives an error, and the loop
\* ends on every input.
C23_Known2Parse ==
    Returned("known2::parse") =>
        /\ c_res.out.tag \in {"Ok", "Err"}
        /\ (c_res.out.tag = "Ok") <=>
              (\E t \in Known2TreeLists : c_buf = <<KNOWN2_MET_VERSION>> \o Known2Encode(t))
        /\ \A t \in Known2TreeLists :
              c_buf = <<KNOWN2_MET_VERSION>> \o Known2Encode(t) => c_res.out.trees = t

\* a file of two trees, the second with two children, has been parsed
C23_Witness ==
    /\ Returned("known2::parse")
    /\ c_res.out.tag = "Ok"
    /\ Len(c_res.out.trees) = 2
    /\ Len(c_res.out.trees[2].children) = 2
    /\ c_res.out.trees[2].children[2] = Known2Hash(34)


\* C24: parse of a clients.met buffer succeeds exactly when the first byte
\* is 0x11 or 0x12, a u32 count follows and exactly count records follow,
\* each of 42 bytes for 0x11 and of 42 + 1 + 80 bytes for 0x12; it then
\* returns count credits whose uploaded and downloaded are hi * 2^32 + lo and,
\* for 0x12, whose secure ident is the first key_size bytes of the key
\* buffer; every other buffer gives an error, never a panic.
C24_ClientsMet ==
    Returned("clientcredit::parse") =>
        LET known == Len(c_buf) >= 1 /\ c_buf[1] \in {CREDITFILE_VERSION_29, CREDITFILE_VERSION}
            size == IF c_buf[1] = CREDITFILE_VERSION_29 THEN 42 ELSE 42 + 1 + MAX_PUBKEYSIZE
            count == U32FromLe(SubSeq(c_buf, 2, 5))
            rec(i) == SubSeq(c_buf, 5 + size * (i - 1) + 1, 5 + size * i)
        IN /\ c_res.out.tag \in {"Ok", "Err"}
           /\ (c_res.out.tag = "Ok") <=>
                 (known /\ Len(c_buf) >= 5 /\ Len(c_buf) - 5 = count * size)
           /\ c_res.out.tag = "Ok" =>
                 /\ Len(c_res.out.credits) = count
                 /\ \A i \in 1..count :
                       /\ c_res.out.credits[i].key = SubSeq(rec(i), 1, 16)
                       /\ c_res.out.credits[i].uploaded
                             = SubSeq(rec(i), 17, 20) \o SubSeq(rec(i), 29, 32)
                       /\ c_res.out.credits[i].downloaded
                             = SubSeq(rec(i), 21, 24) \o SubSeq(rec(i), 33, 36)
                       /\ c_res.out.credits[i].secure_ident
                             = IF c_buf[1] = CREDITFILE_VERSION_29 THEN << >>
                               ELSE SubSeq(rec(i), 44, 43 + rec(i)[43])


\* C25: between two consecutive send_to calls of the sender at least one
\* pacing period passes: a send_to is made only when the period has passed
\* since the send_to before it, the first two calls included.
C25_SendsPaced ==
    [][(g_sent_at' # g_sent_at \/ (s_pc = "send" /\ s_pc' \in {"mark", "sleep"}))
          => (g_sent_at = -1 \/ now >= g_sent_at + PacingPeriod)]_vars


\* the report_contact rows written since the last datagram arrived
RowsSinceRecv == SubSeq(report_contact, g_rc0 + 1, Len(report_contact))

\* C26: the rows of one BootstrapResp are committed in order: the report,
\* then the reporter's own report_contact, then one report_contact per named
\* contact in the order of the response, each a commit of its own that
\* appends to the table; and since a datagram is handled to its end before
\* the next is received, the report_contact rows of two reports never
\* interleave.
C26_ReportRowsInOrder ==
    /\ [](/\ \A i \in 1..Len(report_contact) : report_contact[i].report_id \in 1..Len(report)
          /\ \A i, j \in 1..Len(report_contact) :
                i < j => report_contact[i].report_id <= report_contact[j].report_id
          /\ \A k \in 1..Len(RowsSinceRecv) : RowsSinceRecv[k].report_id = g_report0 + 1
          /\ (r_dg = 2 /\ r_z.tag = "Err") =>
                LET m == Responses[2] IN
                /\ Len(RowsSinceRecv) <= 1 + Len(m.cs)
                /\ \A k \in 1..Len(RowsSinceRecv) :
                      LET rc == RowsSinceRecv[k] IN
                      IF k = 1
                      THEN /\ rc.tcp_port = << >>
                           /\ RowKey(peer[rc.reported_peer_id])
                                 = RowOfPeer(m.client_id, r_addr.ip, m.client_port)
                      ELSE /\ rc.tcp_port = <<m.cs[k - 1].tcp_port>>
                           /\ rc.contact_version = <<m.cs[k - 1].version>>
                           /\ RowKey(peer[rc.reported_peer_id])
                                 = RowOfPeer(m.cs[k - 1].id, m.cs[k - 1].ip, m.cs[k - 1].udp_port))
    /\ [][report_contact' # report_contact =>
             /\ report' = report
             /\ Len(report_contact') = Len(report_contact) + 1
             /\ SubSeq(report_contact', 1, Len(report_contact)) = report_contact
             /\ report_contact'[Len(report_contact')].report_id = Len(report)]_vars

\* two responses of two contacts have been handled, one after the other
C26_Witness ==
    /\ g_last = "ok" /\ r_dg = 2 /\ r_n = 2
    /\ Len(report) = 2 /\ Len(report_contact) = 6
    /\ report_contact[3].report_id = 1 /\ report_contact[4].report_id = 2


\* C27: after every successful Store::new, whatever the clock says, the
\* version row of the greatest ts names the current version; version rows
\* are never changed or removed; the open of a store already at the current
\* version changes nothing; and the open of a store whose latest version is
\* not known fails with DbUnknownVersion and commits nothing.
C27_VersionHistory ==
    [][/\ \A o \in Openers :
            /\ (o_pc[o] = "commit" /\ o_pc'[o] = "done")
                  => /\ \A r \in LatestVersionRows(db') : r.version = CURRENT_STORE_VERSION
                     /\ g_read[o] = CURRENT_STORE_VERSION => db' = db
            /\ (o_pc[o] = "loop" /\ o_pc'[o] # "loop"
                   /\ g_read[o] \notin {STORE_V1, STORE_V2, STORE_V3})
                  => (o_pc'[o] = "failed" /\ o_err'[o] = "DbUnknownVersion" /\ db' = db)
       /\ db.version # << >>
            => /\ db'.version # << >>
               /\ Len(db'.version[1]) >= Len(db.version[1])
               /\ SubSeq(db'.version[1], 1, Len(db.version[1])) = db.version[1]]_vars


\* C28: in every state each report names an existing peer and each
\* report_contact names an existing report and an existing peer; no row of
\* the three tables is ever removed and no row changes its id: a step keeps
\* every row at its id, the peer rows with their key, the report and
\* report_contact rows whole.
C28_ReferentialIntegrity ==
    /\ [](/\ \A i \in 1..Len(report) : report[i].source_peer \in 1..Len(peer)
          /\ \A j \in 1..Len(report_contact) :
                /\ report_contact[j].report_id \in 1..Len(report)
                /\ report_contact[j].reported_peer_id \in 1..Len(peer))
    /\ [][/\ Len(peer') >= Len(peer)
          /\ \A i \in 1..Len(peer) : RowKey(peer'[i]) = RowKey(peer[i])
          /\ IsPrefix(report, report')
          /\ IsPrefix(report_contact, report_contact')]_vars

\* a response of two contacts is recorded and the sender has marked the
\* peer the second contact names
C28_Witness ==
    /\ Len(report) = 1 /\ Len(report_contact) = 3
    /\ s_pc = "tick"
    /\ peer[report_contact[3].reported_peer_id].last_send_time = <<AsUnixMillis(now)>>
    /\ report_contact[1].reported_peer_id # report[1].source_peer


\* C30: last_send_time changes only in the sender's mark_peer_sent, which
\* sets it for the peer sent to, to the time of the call in milliseconds,
\* and leaves the other peers, the reports and the report_contacts as they
\* were; an upsert of a peer that is present (by the handler for the source
\* peer, the reporter or a named contact, or by the import) adds no row and
\* leaves the row, its id and its last_send_time as they were.
C30_OnlySenderMarks ==
    [][/\ \A i \in 1..Len(peer) :
            peer'[i].last_send_time # peer[i].last_send_time
               => /\ s_pc = "mark" /\ s_pc' = "tick" /\ s_peer.id = i
                  /\ peer'[i] = [peer[i] EXCEPT !.last_send_time = <<AsUnixMillis(now)>>]
       /\ (s_pc = "mark" /\ s_pc' = "tick")
            => /\ Len(peer') = Len(peer)
               /\ \A j \in 1..Len(peer) : j # s_peer.id => peer'[j] = peer[j]
               /\ peer'[s_peer.id].last_send_time = <<AsUnixMillis(now)>>
               /\ report' = report /\ report_contact' = report_contact
       /\ (r_pc = "insert_peer" /\ r_pc' = "select_peer" /\ RowsOfKey(peer, CurPeer) # {})
            => peer' = peer /\ r_ct' = 0
       /\ (r_pc = "select_peer" /\ r_pc' \in {"insert_report", "insert_report_contact"})
            => peer' = peer /\ r_sid' \in RowsOfKey(peer, CurPeer)
       /\ (i_pc = "insert_peer" /\ i_pc' = "select_peer" /\ RowsOfKey(peer, i_nodes[i_idx]) # {})
            => peer' = peer /\ i_ct' = 0]_vars

\* the handler has upserted, as a named contact, a peer the sender had
\* marked: the row is found with its mark, nothing is new
C30_Witness ==
    /\ r_pc = "select_peer" /\ r_site = "contact" /\ r_ct = 0
    /\ \E i \in RowsOfKey(peer, CurPeer) : peer[i].last_send_time = <<AsUnixMillis(now)>>
    /\ \E j \in 1..Len(peer) : peer[j].last_send_time = << >>


\* the clock of the model has reached its bound while the sender awaits a
\* tick that lies beyond it
TickBeyondClock == s_pc = "tick" /\ now = MaxClock /\ s_deadline > now

\* C29: when send_to and the store succeed and the tasks are scheduled
\* fairly, every peer that is present and was never sent to is in the end
\* sent a BootstrapReq and marked, also a peer the receiver adds while a
\* sweep is under way or after it, since the sender opens a fresh stream
\* when one ends; and no send_to is made while the table has no peer.
C29_EveryPeerSwept ==
    /\ \A i \in 1..MaxPeerRows :
          (i <= Len(peer) /\ peer[i].last_send_time = << >>)
             ~> (\/ i <= Len(peer) /\ peer[i].last_send_time # << >>
                 \/ r_pc = "panicked"
                 \/ TickBeyondClock)
    /\ [][g_sent_at' # g_sent_at => Len(peer) > 0]_vars

=============================================================================
